---- MODULE Spec2Model ----
(***************************************************************************)
(* A model of the SQL front end of sunbains/sql_parser: the coroutine      *)
(* lexer (include/sql/lexer.h, src/lexer.cc) and the recursive-descent     *)
(* parser built on it (include/sql/parser.h, src/parser.cc).               *)
(*                                                                         *)
(* Characters are one-character strings, texts are sequences of            *)
(* characters, and offsets into the input are 0-based as in the source     *)
(* (At(in, p) is m_input[p]).                                              *)
(***************************************************************************)
EXTENDS Integers, Sequences, FiniteSets, TLC

\* Longest input text, in characters, of the character-level families.
MaxLen == 4
\* Pulls made after the first END_OF_FILE.
MaxEofPulls == 2

(***************************************************************************)
(* Characters                                                              *)
(***************************************************************************)
Quote == "'"
Backslash == "\\"
Newline == "\n"

UpperLetters ==
  <<"A","B","C","D","E","F","G","H","I","J","K","L","M","N","O","P","Q","R","S","T","U","V","W","X","Y","Z">>
LowerLetters ==
  <<"a","b","c","d","e","f","g","h","i","j","k","l","m","n","o","p","q","r","s","t","u","v","w","x","y","z">>
Digits == {"0","1","2","3","4","5","6","7","8","9"}

Range(s) == {s[i] : i \in DOMAIN s}

\* std::isspace in the "C" locale; the vertical tab has no TLA+ escape and is
\* in no input of the model.
isspace(c) == c \in {" ", "\t", "\n", "\r", "\f"}
Letters == Range(UpperLetters) \cup Range(LowerLetters)
isalpha(c) == c \in Letters
isdigit(c) == c \in Digits
isalnum(c) == isalpha(c) \/ isdigit(c)

UpperOf ==
  [c \in Range(LowerLetters) |->
     UpperLetters[CHOOSE i \in DOMAIN LowerLetters : LowerLetters[i] = c]]
toupper(c) == IF c \in DOMAIN UpperOf THEN UpperOf[c] ELSE c

\* std::transform(ucase.begin(), ucase.end(), ucase.begin(), ::toupper)
to_upper(s) == [i \in DOMAIN s |-> toupper(s[i])]

At(in, p) == in[p + 1]
substr(in, from, n) == SubSeq(in, from + 1, from + n)

(***************************************************************************)
(* Lexemes                                                                 *)
(***************************************************************************)
Lexeme(type, value, line, col) ==
  [m_type |-> type, m_value |-> value, m_line |-> line, m_col |-> col]

\* Lexeme{}: the default member initialisers.
UndefinedLexeme == Lexeme("UNDEFINED", <<>>, 0, 0)

Eof == Lexeme("END_OF_FILE", <<>>, 0, 0)

keywords == {
  <<"A","N","D">>, <<"A","S","C">>, <<"B","Y">>, <<"C","R","O","S","S">>,
  <<"D","E","L","E","T","E">>, <<"D","E","S","C">>, <<"D","I","S","T","I","N","C","T">>,
  <<"F","A","L","S","E">>, <<"F","E","T","C","H">>, <<"F","I","R","S","T">>, <<"F","R","O","M">>,
  <<"F","U","L","L">>, <<"G","R","O","U","P">>, <<"H","A","V","I","N","G">>,
  <<"I","N","N","E","R">>, <<"I","N","S","E","R","T">>, <<"J","O","I","N">>, <<"L","A","S","T">>,
  <<"L","E","F","T">>, <<"L","I","K","E">>, <<"L","I","M","I","T">>,
  <<"N","A","T","U","R","A","L">>, <<"N","E","X","T">>, <<"N","O","T">>, <<"N","U","L","L">>,
  <<"O","F","F","S","E","T">>, <<"O","N">>, <<"O","N","L","Y">>, <<"O","R">>,
  <<"O","R","D","E","R">>, <<"O","U","T","E","R">>, <<"R","E","C","U","R","S","I","V","E">>,
  <<"R","I","G","H","T">>, <<"R","O","W">>, <<"R","O","W","S">>, <<"S","E","L","E","C","T">>,
  <<"S","E","T">>, <<"T","R","U","E">>, <<"U","P","D","A","T","E">>, <<"U","S","I","N","G">>,
  <<"W","H","E","R","E">>, <<"W","I","T","H">>, <<"W","I","T","H","O","U","T">>
}

Cursor(pos, line, col) == [m_pos |-> pos, m_line |-> line, m_col |-> col]

\* What one lexing routine leaves behind: the lexeme it returns (none when it
\* throws) and the lexer's cursor.
Yield(lexeme, lx) == [lexeme |-> lexeme, threw |-> FALSE, lx |-> lx]
Throw(lx) == [lexeme |-> UndefinedLexeme, threw |-> TRUE, lx |-> lx]

(***************************************************************************)
(* Lexer                                                                   *)
(***************************************************************************)
\* skip_whitespace with the line break resetting the column only.
RECURSIVE skip_whitespace_same_line(_, _)
skip_whitespace_same_line(in, lx) ==
  IF lx.m_pos < Len(in) /\ isspace(At(in, lx.m_pos))
    THEN IF At(in, lx.m_pos) = Newline
           THEN skip_whitespace_same_line(in, Cursor(lx.m_pos + 1, lx.m_line, 1))
           ELSE skip_whitespace_same_line(in, Cursor(lx.m_pos + 1, lx.m_line, lx.m_col + 1))
    ELSE lx

\* skip_whitespace that takes only the blank and the line break for
\* whitespace.
RECURSIVE skip_whitespace_blanks(_, _)
skip_whitespace_blanks(in, lx) ==
  IF lx.m_pos < Len(in) /\ At(in, lx.m_pos) \in {" ", Newline}
    THEN IF At(in, lx.m_pos) = Newline
           THEN skip_whitespace_blanks(in, Cursor(lx.m_pos + 1, lx.m_line + 1, 1))
           ELSE skip_whitespace_blanks(in, Cursor(lx.m_pos + 1, lx.m_line, lx.m_col + 1))
    ELSE lx

RECURSIVE skip_whitespace(_, _)
skip_whitespace(in, lx) ==
  IF lx.m_pos < Len(in) /\ isspace(At(in, lx.m_pos))
    THEN IF At(in, lx.m_pos) = Newline
           THEN skip_whitespace(in, Cursor(lx.m_pos + 1, lx.m_line + 1, 1))
           ELSE skip_whitespace(in, Cursor(lx.m_pos + 1, lx.m_line, lx.m_col + 1))
    ELSE lx

\* The scanning loop of lex_identifier: the offset it stops at.
RECURSIVE identifier_end(_, _)
identifier_end(in, p) ==
  IF p < Len(in) /\ (isalnum(At(in, p)) \/ At(in, p) = "_")
    THEN identifier_end(in, p + 1)
    ELSE p

classify(value) ==
  IF to_upper(value) \in keywords THEN "KEYWORD" ELSE "IDENTIFIER"

lex_identifier(in, lx) ==
  LET start_pos == lx.m_pos
      start_col == lx.m_col
      end_pos == identifier_end(in, start_pos)
      value == substr(in, start_pos, end_pos - start_pos)
  IN  Yield(Lexeme(classify(value), value, lx.m_line, start_col),
            Cursor(end_pos, lx.m_line, start_col + (end_pos - start_pos)))

\* The scanning loop of lex_number: the offset it stops at.
RECURSIVE number_end(_, _, _)
number_end(in, p, has_decimal) ==
  IF p < Len(in)
    THEN IF At(in, p) = "." /\ ~has_decimal
           THEN number_end(in, p + 1, TRUE)
           ELSE IF isdigit(At(in, p))
                  THEN number_end(in, p + 1, has_decimal)
                  ELSE p
    ELSE p

lex_number(in, lx) ==
  LET start_pos == lx.m_pos
      start_col == lx.m_col
      end_pos == number_end(in, start_pos, FALSE)
  IN  Yield(Lexeme("NUMBER", substr(in, start_pos, end_pos - start_pos), lx.m_line, start_col),
            Cursor(end_pos, lx.m_line, start_col + (end_pos - start_pos)))

\* string_scan without the backslash escape.
RECURSIVE string_scan_no_escape(_, _, _, _)
string_scan_no_escape(in, p, col, value) ==
  IF p < Len(in)
    THEN IF At(in, p) = Quote /\ p + 1 < Len(in) /\ At(in, p + 1) = Quote
           THEN string_scan_no_escape(in, p + 2, col + 2, Append(value, Quote))
           ELSE IF At(in, p) = Quote
                  THEN [m_pos |-> p, m_col |-> col, value |-> value]
                  ELSE string_scan_no_escape(in, p + 1, col + 1, Append(value, At(in, p)))
    ELSE [m_pos |-> p, m_col |-> col, value |-> value]

\* string_scan copying the backslash of an escape into the text.
RECURSIVE string_scan_keeps_backslash(_, _, _, _)
string_scan_keeps_backslash(in, p, col, value) ==
  IF p < Len(in)
    THEN IF At(in, p) = Backslash /\ p + 1 < Len(in)
           THEN string_scan_keeps_backslash(in, p + 2, col + 2,
                                            value \o <<Backslash, At(in, p + 1)>>)
           ELSE IF At(in, p) = Quote /\ p + 1 < Len(in) /\ At(in, p + 1) = Quote
                  THEN string_scan_keeps_backslash(in, p + 2, col + 2, Append(value, Quote))
                  ELSE IF At(in, p) = Quote
                         THEN [m_pos |-> p, m_col |-> col, value |-> value]
                         ELSE string_scan_keeps_backslash(in, p + 1, col + 1,
                                                          Append(value, At(in, p)))
    ELSE [m_pos |-> p, m_col |-> col, value |-> value]

\* string_scan without the doubled quote.
RECURSIVE string_scan_no_doubling(_, _, _, _)
string_scan_no_doubling(in, p, col, value) ==
  IF p < Len(in)
    THEN IF At(in, p) = Backslash /\ p + 1 < Len(in)
           THEN string_scan_no_doubling(in, p + 2, col + 2, Append(value, At(in, p + 1)))
           ELSE IF At(in, p) = Quote
                  THEN [m_pos |-> p, m_col |-> col, value |-> value]
                  ELSE string_scan_no_doubling(in, p + 1, col + 1, Append(value, At(in, p)))
    ELSE [m_pos |-> p, m_col |-> col, value |-> value]

\* The scanning loop of lex_string, entered after the opening quote: where it
\* stops, the column it has counted and the text it has decoded.
RECURSIVE string_scan(_, _, _, _)
string_scan(in, p, col, value) ==
  IF p < Len(in)
    THEN IF At(in, p) = Backslash /\ p + 1 < Len(in)
           THEN string_scan(in, p + 2, col + 2, Append(value, At(in, p + 1)))
           ELSE IF At(in, p) = Quote /\ p + 1 < Len(in) /\ At(in, p + 1) = Quote
                  THEN string_scan(in, p + 2, col + 2, Append(value, Quote))
                  ELSE IF At(in, p) = Quote
                         THEN [m_pos |-> p, m_col |-> col, value |-> value]
                         ELSE string_scan(in, p + 1, col + 1, Append(value, At(in, p)))
    ELSE [m_pos |-> p, m_col |-> col, value |-> value]

lex_string(in, lx) ==
  LET start_col == lx.m_col
      \* ++m_pos skips the opening quote; m_col is left as it is.
      s == string_scan(in, lx.m_pos + 1, lx.m_col, <<>>)
  IN  IF s.m_pos >= Len(in)
        THEN Throw(Cursor(s.m_pos, lx.m_line, s.m_col))
        ELSE Yield(Lexeme("STRING_LITERAL", s.value, lx.m_line, start_col),
                   Cursor(s.m_pos + 1, lx.m_line, s.m_col + 1))

two_char_operators == {<<"<", "=">>, <<">", "=">>, <<"!", "=">>, <<"<", ">">>}

\* lex_operator reading the character without consuming it.
lex_operator_stuck(in, lx) ==
  Yield(Lexeme("OPERATOR", <<At(in, lx.m_pos)>>, lx.m_line, lx.m_col),
        Cursor(lx.m_pos, lx.m_line, lx.m_col + 1))

lex_operator(in, lx) ==
  LET start_col == lx.m_col
      c == At(in, lx.m_pos)
      pos == lx.m_pos + 1
  IN  IF pos < Len(in) /\ <<c, At(in, pos)>> \in two_char_operators
        THEN Yield(Lexeme("OPERATOR", <<c, At(in, pos)>>, lx.m_line, start_col),
                   Cursor(pos + 1, lx.m_line, start_col + 2))
        ELSE Yield(Lexeme("OPERATOR", <<c>>, lx.m_line, start_col),
                   Cursor(pos, lx.m_line, start_col + 1))

\* One pull: the coroutine body runs to its first co_yield or to co_return.
next_token(in, lx) ==
  IF lx.m_pos < Len(in)
    THEN LET ws == skip_whitespace(in, lx)
         IN  IF ws.m_pos >= Len(in)
               THEN Yield(Eof, ws)
               ELSE LET c == At(in, ws.m_pos)
                    IN  IF isalpha(c) \/ c = "_" THEN lex_identifier(in, ws)
                        ELSE IF isdigit(c) THEN lex_number(in, ws)
                        ELSE IF c = Quote THEN lex_string(in, ws)
                        ELSE lex_operator(in, ws)
    ELSE Yield(Eof, lx)

(***************************************************************************)
(* Parser: state and primitives                                            *)
(*                                                                         *)
(* A parsing routine takes the input and the parser (its state stack and   *)
(* the cursor of the lexer it refers to) and gives back the parser it      *)
(* leaves and either the value it returns or the exception it throws.      *)
(***************************************************************************)
\* std::string from a literal of the source
str(s) == [i \in 1..Len(s) |-> SubSeq(s, i, i)]

State(pos, lexeme, prev_lexeme, line, col) ==
  [m_pos |-> pos, m_lexeme |-> lexeme, m_prev_lexeme |-> prev_lexeme,
   m_line |-> line, m_col |-> col]

\* pulled is history: one record per lexeme the parser has pulled from the
\* lexer since the call began.
ParserOf(stack, lx) == [m_state_stack |-> stack, lx |-> lx, pulled |-> <<>>]

\* The state stack and the lexer of two parsers are equal.
Same(p, q) == p.m_state_stack = q.m_state_stack /\ p.lx = q.lx

back(ps) == ps.m_state_stack[Len(ps.m_state_stack)]
set_back(ps, st) == [ps EXCEPT !.m_state_stack[Len(ps.m_state_stack)] = st]
current(ps) == back(ps).m_lexeme

Ok(ps, val) == [ok |-> TRUE, ps |-> ps, val |-> val]
Fail(ps, what) == [ok |-> FALSE, ps |-> ps, val |-> what]

(***************************************************************************)
(* Parser: calls                                                           *)
(*                                                                         *)
(* The member functions of Parser call one another recursively.  A call is *)
(* written call_f(in, ps, ...) for the member function f; call runs the    *)
(* function named.                                                         *)
(***************************************************************************)
RECURSIVE call(_, _, _, _)
call_advance(in, ps) == call("advance", in, ps, <<>>)
call_expect_type(in, ps, type) == call("expect_type", in, ps, <<type>>)
call_expect(in, ps, type, value) == call("expect", in, ps, <<type, value>>)
call_match_type(in, ps, type) == call("match_type", in, ps, <<type>>)
call_match(in, ps, type, value) == call("match", in, ps, <<type, value>>)
call_advance_times(in, ps, n) == call("advance_times", in, ps, <<n>>)
call_peek(in, ps, offset) == call("peek", in, ps, <<offset>>)
call_parse_literal(in, ps) == call("parse_literal", in, ps, <<>>)
call_parse_column_ref(in, ps) == call("parse_column_ref", in, ps, <<>>)
call_parse_optional_over_clause(in, ps, func) == call("parse_optional_over_clause", in, ps, <<func>>)
call_argument_loop(in, ps, arguments) == call("argument_loop", in, ps, <<arguments>>)
call_parse_function_call(in, ps) == call("parse_function_call", in, ps, <<>>)
call_identifier_before(in, ps, value) == call("identifier_before", in, ps, <<value>>)
call_parse_primary(in, ps) == call("parse_primary", in, ps, <<>>)
call_factor_loop(in, ps, left) == call("factor_loop", in, ps, <<left>>)
call_parse_factor(in, ps) == call("parse_factor", in, ps, <<>>)
call_term_loop(in, ps, left) == call("term_loop", in, ps, <<left>>)
call_parse_term(in, ps) == call("parse_term", in, ps, <<>>)
call_expression_loop(in, ps, left) == call("expression_loop", in, ps, <<left>>)
call_parse_expression(in, ps) == call("parse_expression", in, ps, <<>>)
call_parse_column_expression(in, ps) == call("parse_column_expression", in, ps, <<>>)
call_column_loop(in, ps, columns) == call("column_loop", in, ps, <<columns>>)
call_parse_column_list(in, ps) == call("parse_column_list", in, ps, <<>>)
call_parse_table_reference(in, ps) == call("parse_table_reference", in, ps, <<>>)
call_optional_outer(in, ps) == call("optional_outer", in, ps, <<>>)
call_join_type_from(in, ps, words) == call("join_type_from", in, ps, <<words>>)
call_join_type(in, ps) == call("join_type", in, ps, <<>>)
call_parse_join(in, ps) == call("parse_join", in, ps, <<>>)
call_parse_table_references_from(in, ps, tables) == call("parse_table_references_from", in, ps, <<tables>>)
call_parse_table_references(in, ps) == call("parse_table_references", in, ps, <<>>)
call_parse_where_clause(in, ps) == call("parse_where_clause", in, ps, <<>>)
call_group_loop(in, ps, columns) == call("group_loop", in, ps, <<columns>>)
call_parse_group_by(in, ps) == call("parse_group_by", in, ps, <<>>)
call_parse_limit(in, ps) == call("parse_limit", in, ps, <<>>)
call_parse_nulls(in, ps) == call("parse_nulls", in, ps, <<>>)
call_order_loop(in, ps, items) == call("order_loop", in, ps, <<items>>)
call_parse_order_by(in, ps) == call("parse_order_by", in, ps, <<>>)
call_select_clauses(in, ps, select) == call("select_clauses", in, ps, <<select>>)
call_parse_select_statement(in, ps) == call("parse_select_statement", in, ps, <<>>)
call_assignment_loop(in, ps, assignments) == call("assignment_loop", in, ps, <<assignments>>)
call_parse_update_assignments(in, ps) == call("parse_update_assignments", in, ps, <<>>)
call_optional_tail(in, ps, stmt) == call("optional_tail", in, ps, <<stmt>>)
call_parse_update_statement(in, ps) == call("parse_update_statement", in, ps, <<>>)
call_parse_delete_statement(in, ps) == call("parse_delete_statement", in, ps, <<>>)
call_value_lists_loop(in, ps, value_lists) == call("value_lists_loop", in, ps, <<value_lists>>)
call_parse_value_lists(in, ps) == call("parse_value_lists", in, ps, <<>>)
call_insert_columns_loop(in, ps, columns) == call("insert_columns_loop", in, ps, <<columns>>)
call_parse_on_duplicate(in, ps) == call("parse_on_duplicate", in, ps, <<>>)
call_parse_insert_statement(in, ps) == call("parse_insert_statement", in, ps, <<>>)
call_parse_alter_statement(in, ps) == call("parse_alter_statement", in, ps, <<>>)
call_parse_statement_from(in, ps, words) == call("parse_statement_from", in, ps, <<words>>)
call_parse_statement(in, ps) == call("parse_statement", in, ps, <<>>)
call_parse(in, ps) == call("parse", in, ps, <<>>)

\* A Lexeme after std::move: the string is left empty, the rest is copied.
moved_from(lexeme) == [lexeme EXCEPT !.m_value = <<>>]

Pull(ps, r) == [lexeme |-> r.lexeme, threw |-> r.threw, from |-> ps.lx, to |-> r.lx]

\* advance() that swallows the exception of the lexer and goes on with
\* END_OF_FILE as the current lexeme.
advance_swallows_failure(in, ps) ==
  LET ws == skip_whitespace(in, ps.lx)
      st == back(ps)
      r == next_token(in, ws)
  IN  Ok([set_back(ps, [st EXCEPT !.m_prev_lexeme = st.m_lexeme,
                                  !.m_lexeme = IF r.threw THEN Eof ELSE r.lexeme])
            EXCEPT !.lx = r.lx, !.pulled = Append(@, Pull(ps, r))],
         TRUE)

advance(in, ps) ==
  LET ws == skip_whitespace(in, ps.lx)
      st == back(ps)
      r == next_token(in, ws)
  IN  IF r.threw
        THEN Fail([set_back(ps, [st EXCEPT !.m_prev_lexeme = st.m_lexeme,
                                           !.m_lexeme = moved_from(st.m_lexeme)])
                     EXCEPT !.lx = r.lx, !.pulled = Append(@, Pull(ps, r))],
                  "Unterminated string literal")
        ELSE Ok([set_back(ps, [st EXCEPT !.m_prev_lexeme = st.m_lexeme,
                                         !.m_lexeme = r.lexeme])
                   EXCEPT !.lx = r.lx, !.pulled = Append(@, Pull(ps, r))],
                TRUE)

\* expect(Lexeme_type)
expect_type(in, ps, type) ==
  IF current(ps).m_type # type
    THEN Fail(ps, "Unexpected token type")
    ELSE call_advance(in, ps)

\* expect(Lexeme_type, const std::string&)
expect(in, ps, type, value) ==
  IF current(ps).m_type # type \/ current(ps).m_value # value
    THEN Fail(ps, "Unexpected token")
    ELSE call_advance(in, ps)

\* sql::to_string(Lexeme_type): the name of the kind
to_string(type) == type

\* The arguments std::format puts into the message of expect(Lexeme_type),
\* each under the expression of the source that gives it.
expect_type_diagnostic(in, ps, type) ==
  [what |-> "Unexpected token type",
   expected |-> to_string(type),
   got |-> to_string(current(ps).m_type),
   previous |-> back(ps).m_prev_lexeme.m_value,
   current |-> current(ps).m_value,
   m_pos |-> back(ps).m_pos,
   input |-> SubSeq(in, back(ps).m_col + 1, Len(in))]

\* The message of expect(Lexeme_type, const std::string&) has no arguments.
expect_diagnostic(in, ps, type, value) == [what |-> "Unexpected token"]

\* match(Lexeme_type)
match_type(in, ps, type) ==
  IF current(ps).m_type = type
    THEN LET a == call_advance(in, ps) IN IF a.ok THEN Ok(a.ps, TRUE) ELSE a
    ELSE Ok(ps, FALSE)

\* match(Lexeme_type, const std::string&)
match(in, ps, type, value) ==
  IF current(ps).m_type = type /\ current(ps).m_value = value
    THEN LET a == call_advance(in, ps) IN IF a.ok THEN Ok(a.ps, TRUE) ELSE a
    ELSE Ok(ps, FALSE)

advance_times(in, ps, n) ==
  IF n = 0 THEN Ok(ps, TRUE)
  ELSE LET a == call_advance(in, ps)
       IN  IF a.ok THEN call_advance_times(in, a.ps, n - 1) ELSE a

\* peek() that looks ahead on a copy of the state pushed on the stack and
\* leaves the copy there.
peek_leaves_saved_state(in, ps, offset) ==
  LET saved_pos == ps.lx.m_pos
      saved_lexeme == current(ps)
      a == call_advance_times(in, [ps EXCEPT !.m_state_stack = Append(@, back(ps))],
                              offset)
  IN  IF ~a.ok THEN a
      ELSE Ok([set_back(a.ps, [back(a.ps) EXCEPT !.m_lexeme = saved_lexeme])
                 EXCEPT !.lx.m_pos = saved_pos],
              current(a.ps))

\* peek(size_t offset): m_pos and the current lexeme are put back, the
\* previous lexeme and the lexer's line and column are not.
peek(in, ps, offset) ==
  LET saved_pos == ps.lx.m_pos
      saved_lexeme == current(ps)
      a == call_advance_times(in, ps, offset)
  IN  IF ~a.ok THEN a
      ELSE Ok([set_back(a.ps, [back(a.ps) EXCEPT !.m_lexeme = saved_lexeme])
                 EXCEPT !.lx.m_pos = saved_pos],
              current(a.ps))

\* Parser::Parser(Lexer&)
Parser(in, lx) ==
  call_advance(in, ParserOf(<<State(lx.m_pos, UndefinedLexeme, UndefinedLexeme, 1, 1)>>, lx))

(***************************************************************************)
(* Parser: saved states, backup and savepoints                             *)
(*                                                                         *)
(* A state id is the index of an element of m_state_stack counted from 0,  *)
(* as in the source; the stack of the model is counted from 1.             *)
(***************************************************************************)
\* size_t save_state(): a copy of the top is pushed, its index is returned.
save_state(ps) ==
  Ok([ps EXCEPT !.m_state_stack = Append(@, back(ps))], Len(ps.m_state_stack))

\* void restore_state(size_t state_id): m_state_stack.resize(state_id)
restore_state(ps, state_id) ==
  IF state_id >= Len(ps.m_state_stack)
    THEN Fail(ps, <<"Invalid parser state ID", state_id>>)
    ELSE Ok([ps EXCEPT !.m_state_stack = SubSeq(@, 1, state_id)], TRUE)

\* backup() that also moved the lexer back to the start of the lexeme it
\* puts back.
backup_rewinds_lexer(in, ps, ndebug) ==
  LET st == back(ps)
  IN  IF st.m_prev_lexeme.m_type = "UNDEFINED"
        THEN Fail(ps, "Cannot backup: no previous token")
        ELSE Ok([set_back(ps, [st EXCEPT !.m_lexeme = st.m_prev_lexeme,
                                         !.m_prev_lexeme = UndefinedLexeme])
                   EXCEPT !.lx = Cursor(ps.lx.m_pos - Len(st.m_lexeme.m_value),
                                        st.m_lexeme.m_line, st.m_lexeme.m_col)],
                TRUE)

\* void backup().  m_pos of a State is a size_t: a negative m_pos n of the
\* model stands for the wrapped value 2^64 + n.  The two asserts are compiled
\* in unless the build defines NDEBUG; a failed assert aborts the program.
backup(in, ps, ndebug) ==
  LET st == back(ps)
      length == Len(st.m_lexeme.m_value)
  IN  IF st.m_prev_lexeme.m_type = "UNDEFINED"
        THEN Fail(ps, "Cannot backup: no previous token")
      ELSE IF ~ndebug /\ ~(0 <= st.m_pos /\ st.m_pos <= Len(in) /\ st.m_pos >= length)
        THEN Fail(ps, "abort")
      ELSE Ok(set_back(ps, [st EXCEPT !.m_pos = st.m_pos - length,
                                      !.m_line = st.m_lexeme.m_line,
                                      !.m_col = st.m_lexeme.m_col,
                                      !.m_lexeme = st.m_prev_lexeme,
                                      !.m_prev_lexeme = UndefinedLexeme]),
              TRUE)

\* What a member function of a Savepoint leaves: the parser, the savepoint,
\* the state ids it passed to restore_state, and whether it threw.
Left(r, sp, restores) ==
  [ok |-> r.ok, ps |-> r.ps, val |-> r.val, sp |-> sp, restores |-> restores]

\* Savepoint::Savepoint(Parser&), as create_savepoint() returns it
Savepoint(ps) ==
  LET s == save_state(ps)
  IN  Left(s, [m_state_id |-> s.val, m_active |-> TRUE], <<>>)

create_savepoint(ps) == Savepoint(ps)

\* void Savepoint::commit()
commit(ps, sp) == Left(Ok(ps, TRUE), [sp EXCEPT !.m_active = FALSE], <<>>)

\* rollback() that leaves the savepoint active.
rollback_stays_active(ps, sp) ==
  Left(restore_state(ps, sp.m_state_id), sp, <<sp.m_state_id>>)

\* void Savepoint::rollback(): when restore_state throws, m_active is not
\* reached.
rollback(ps, sp) ==
  LET r == restore_state(ps, sp.m_state_id)
  IN  Left(r, IF r.ok THEN [sp EXCEPT !.m_active = FALSE] ELSE sp,
           <<sp.m_state_id>>)

\* Savepoint::~Savepoint(): an exception that leaves a destructor ends the
\* program in std::terminate.
Savepoint_destructor(ps, sp) ==
  IF sp.m_active
    THEN LET r == rollback(ps, sp)
         IN  IF r.ok THEN r ELSE [r EXCEPT !.val = "std::terminate"]
    ELSE Left(Ok(ps, TRUE), sp, <<>>)

(***************************************************************************)
(* Parser: AST nodes                                                       *)
(*                                                                         *)
(* A std::optional is a sequence of at most one value, a null pointer is   *)
(* the node Null.                                                          *)
(***************************************************************************)
nullopt == <<>>
some(v) == <<v>>
Null == [node |-> "null"]

Literal(type, value) == [node |-> "Literal", m_type |-> type, m_value |-> value]
Column_ref(table_name, column_name, alias) ==
  [node |-> "Column_ref", m_table_name |-> table_name,
   m_column_name |-> column_name, m_alias |-> alias]
Binary_op(op, left, right) ==
  [node |-> "Binary_op", m_op |-> op, m_left |-> left, m_right |-> right]
Function_call(name, arguments, distinct, star, window) ==
  [node |-> "Function_call", m_function_name |-> name, m_arguments |-> arguments,
   m_distinct |-> distinct, m_star |-> star, m_window |-> window]
Table_ref(schema_name, table_name, alias) ==
  [node |-> "Table_ref", m_schema_name |-> schema_name,
   m_table_name |-> table_name, m_alias |-> alias]
Join(type, left, right, natural, condition) ==
  [node |-> "Join", m_type |-> type, m_left |-> left, m_right |-> right,
   m_natural |-> natural, m_condition |-> condition]
Join_ref(join) == [node |-> "Join_ref", m_join |-> join]
Where_clause(condition) == [node |-> "Where_clause", m_condition |-> condition]
Group_by(columns, having) ==
  [node |-> "Group_by", m_columns |-> columns, m_having |-> having]
Order_by_item(column, ascending, nulls) ==
  [node |-> "Order_by_item", m_column |-> column, m_ascending |-> ascending,
   m_nulls |-> nulls]
\* A Select_stmt whose m_group_by is never null: an empty Group_by by default.
Select_stmt_with_group_by(distinct, columns, from, where, group_by, order_by, limit) ==
  [node |-> "Select_stmt", m_distinct |-> distinct, m_columns |-> columns,
   m_from |-> from, m_where |-> where,
   m_group_by |-> IF group_by = Null THEN Group_by(<<>>, Null) ELSE group_by,
   m_order_by |-> order_by, m_limit |-> limit]

Select_stmt(distinct, columns, from, where, group_by, order_by, limit) ==
  [node |-> "Select_stmt", m_distinct |-> distinct, m_columns |-> columns,
   m_from |-> from, m_where |-> where, m_group_by |-> group_by,
   m_order_by |-> order_by, m_limit |-> limit]

(***************************************************************************)
(* Parser: expressions                                                     *)
(***************************************************************************)
operator_types ==
  [text \in {str("="), str("<>"), str("<"), str(">"), str("<="), str(">="), str("+"),
             str("*"), str("/"), str("%"), str("AND"), str("OR"), str("LIKE"), str("IN")} |->
     CASE text = str("=") -> "EQ"
       [] text = str("<>") -> "NEQ"
       [] text = str("<") -> "LT"
       [] text = str(">") -> "GT"
       [] text = str("<=") -> "LTE"
       [] text = str(">=") -> "GTE"
       [] text = str("+") -> "ADD"
       [] text = str("*") -> "MULTIPLY"
       [] text = str("/") -> "DIVIDE"
       [] text = str("%") -> "MOD"
       [] text = str("AND") -> "AND"
       [] text = str("OR") -> "OR"
       [] text = str("LIKE") -> "LIKE"
       [] text = str("IN") -> "IN"]

\* parse_operator: the operator the current lexeme stands for, if any.
parse_operator(ps) ==
  IF current(ps).m_type # "OPERATOR" THEN nullopt
  ELSE IF current(ps).m_value \in DOMAIN operator_types
         THEN some(operator_types[current(ps).m_value])
         ELSE nullopt

\* std::stoull on the text of a NUMBER lexeme: its leading digits.
digit_value == [c \in Digits |->
  CASE c = "0" -> 0 [] c = "1" -> 1 [] c = "2" -> 2 [] c = "3" -> 3 [] c = "4" -> 4
    [] c = "5" -> 5 [] c = "6" -> 6 [] c = "7" -> 7 [] c = "8" -> 8 [] c = "9" -> 9]
RECURSIVE stoull_from(_, _)
stoull_from(value, acc) ==
  IF value # <<>> /\ isdigit(Head(value))
    THEN stoull_from(Tail(value), 10 * acc + digit_value[Head(value)])
    ELSE acc
stoull(value) == stoull_from(value, 0)

parse_literal(in, ps) ==
  LET lexeme == current(ps)
      a == call_advance(in, ps)
  IN  CASE lexeme.m_type = "NUMBER" ->
             IF ~a.ok THEN a
             ELSE Ok(a.ps, Literal(IF "." \in Range(lexeme.m_value)
                                     THEN "floating" ELSE "integer", lexeme.m_value))
        [] lexeme.m_type = "STRING_LITERAL" ->
             IF ~a.ok THEN a ELSE Ok(a.ps, Literal("string", lexeme.m_value))
        [] lexeme.m_type = "KEYWORD" ->
             IF lexeme.m_value = str("NULL")
               THEN IF ~a.ok THEN a ELSE Ok(a.ps, Literal("null", str("NULL")))
             ELSE IF lexeme.m_value \in {str("TRUE"), str("FALSE")}
               THEN IF ~a.ok THEN a ELSE Ok(a.ps, Literal("boolean", lexeme.m_value))
             ELSE Fail(ps, "Unexpected keyword in literal context")
        [] OTHER -> Fail(ps, "Expected literal value")

parse_column_ref(in, ps) ==
  LET name == current(ps).m_value
      a == call_advance(in, ps)
  IN  IF ~a.ok THEN a
      ELSE LET dot == call_match(in, a.ps, "OPERATOR", str("."))
           IN  IF ~dot.ok THEN dot
               ELSE IF ~dot.val THEN Ok(dot.ps, Column_ref(nullopt, name, nullopt))
               ELSE LET e == call_expect_type(in, dot.ps, "IDENTIFIER")
                    IN  IF ~e.ok THEN e
                        ELSE Ok(e.ps, Column_ref(some(name),
                                                 back(e.ps).m_prev_lexeme.m_value, nullopt))


\* The routines parse_window_specification, parse_create_statement and
\* parse_drop_statement are called only after match() of a KEYWORD lexeme
\* OVER, CREATE or DROP.  The lexer's keyword set holds none of these words,
\* so no input enters them; the model stops here (see NoRoutineBeyondModel).
beyond_model(ps, routine) == Fail(ps, <<"beyond the model", routine>>)

parse_optional_over_clause(in, ps, func) ==
  LET over == call_match(in, ps, "KEYWORD", str("OVER"))
  IN  IF ~over.ok THEN over
      ELSE IF ~over.val THEN Ok(over.ps, func)
      ELSE beyond_model(over.ps, "parse_window_specification")

\* do { m_arguments.push_back(parse_expression()); } while (match(OPERATOR, ","));
argument_loop(in, ps, arguments) ==
  LET e == call_parse_expression(in, ps)
  IN  IF ~e.ok THEN e
      ELSE LET comma == call_match(in, e.ps, "OPERATOR", str(","))
           IN  IF ~comma.ok THEN comma
               ELSE IF comma.val THEN call_argument_loop(in, comma.ps, Append(arguments, e.val))
               ELSE Ok(comma.ps, Append(arguments, e.val))

parse_function_call(in, ps) ==
  IF current(ps).m_type # "IDENTIFIER" THEN Fail(ps, "Expected function name")
  ELSE
    LET name == current(ps).m_value
        a == call_advance(in, ps)
    IN  IF ~a.ok THEN a ELSE
    LET open == call_match(in, a.ps, "OPERATOR", str("("))
    IN  IF ~open.ok THEN open
        ELSE IF ~open.val
          THEN Fail(open.ps, "Expected opening parenthesis after function name")
        ELSE
    LET star == IF name = str("COUNT")
                  THEN call_match(in, open.ps, "OPERATOR", str("*"))
                  ELSE Ok(open.ps, FALSE)
    IN  IF ~star.ok THEN star
        ELSE IF star.val
          THEN LET close == call_match(in, star.ps, "OPERATOR", str(")"))
               IN  IF ~close.ok THEN close
                   ELSE IF ~close.val
                     THEN Fail(close.ps, "Expected closing parenthesis after COUNT(*)")
                   ELSE call_parse_optional_over_clause(
                          in, close.ps, Function_call(name, <<>>, FALSE, TRUE, Null))
        ELSE
    LET distinct == call_match(in, star.ps, "KEYWORD", str("DISTINCT"))
    IN  IF ~distinct.ok THEN distinct ELSE
    LET empty == call_match(in, distinct.ps, "OPERATOR", str(")"))
    IN  IF ~empty.ok THEN empty
        ELSE IF empty.val
          THEN call_parse_optional_over_clause(
                 in, empty.ps, Function_call(name, <<>>, distinct.val, FALSE, Null))
        ELSE
    LET args == call_argument_loop(in, empty.ps, <<>>)
    IN  IF ~args.ok THEN args ELSE
    LET close == call_match(in, args.ps, "OPERATOR", str(")"))
    IN  IF ~close.ok THEN close
        ELSE IF ~close.val
          THEN Fail(close.ps, "Expected closing parenthesis after function arguments")
        ELSE call_parse_optional_over_clause(
               in, close.ps, Function_call(name, args.val, distinct.val, FALSE, Null))

\* state.m_lexeme.m_type == IDENTIFIER && peek().m_type == OPERATOR
\*   && peek().m_value == value: each operand that is evaluated peeks anew.
identifier_before(in, ps, value) ==
  IF current(ps).m_type # "IDENTIFIER" THEN Ok(ps, FALSE)
  ELSE LET first == call_peek(in, ps, 1)
       IN  IF ~first.ok THEN first
           ELSE IF first.val.m_type # "OPERATOR" THEN Ok(first.ps, FALSE)
           ELSE LET second == call_peek(in, first.ps, 1)
                IN  IF ~second.ok THEN second
                    ELSE Ok(second.ps, second.val.m_value = value)

parse_primary(in, ps) ==
  LET open == call_match(in, ps, "OPERATOR", str("("))
  IN  IF ~open.ok THEN open
      ELSE IF open.val
        THEN LET e == call_parse_expression(in, open.ps)
             IN  IF ~e.ok THEN e
                 ELSE LET close == call_expect(in, e.ps, "OPERATOR", str(")"))
                      IN  IF ~close.ok THEN close ELSE Ok(close.ps, e.val)
      ELSE LET is_call == call_identifier_before(in, open.ps, str("("))
           IN  IF ~is_call.ok THEN is_call
               ELSE IF is_call.val THEN call_parse_function_call(in, is_call.ps)
               ELSE IF current(is_call.ps).m_type = "IDENTIFIER"
                 THEN call_parse_column_ref(in, is_call.ps)
               ELSE call_parse_literal(in, is_call.ps)

\* dynamic_cast<Binary_op*>: the node when it is a Binary_op, a null pointer
\* otherwise.
as_binary_op(node) == IF node.node = "Binary_op" THEN node ELSE Null

\* The loop of parse_factor() with the fold to the right: the operations
\* that follow an operator become its right operand.
factor_loop_folds_right(in, ps, left) ==
  LET op_type == parse_operator(ps)
  IN  IF op_type = nullopt THEN Ok(ps, left)
      ELSE LET a == call_advance(in, ps)
           IN  IF ~a.ok THEN a
               ELSE LET right == call_parse_primary(in, a.ps)
                    IN  IF ~right.ok THEN right
                        ELSE LET rest == call_factor_loop(in, right.ps, right.val)
                             IN  IF ~rest.ok THEN rest
                                 ELSE Ok(rest.ps, Binary_op(op_type[1], left, rest.val))

factor_loop(in, ps, left) ==
  LET op_type == parse_operator(ps)
  IN  IF op_type = nullopt THEN Ok(ps, left)
      ELSE LET a == call_advance(in, ps)
           IN  IF ~a.ok THEN a
               ELSE LET right == call_parse_primary(in, a.ps)
                    IN  IF ~right.ok THEN right
                        ELSE call_factor_loop(in, right.ps,
                                         Binary_op(op_type[1], left, right.val))

parse_factor(in, ps) ==
  LET left == call_parse_primary(in, ps)
  IN  IF ~left.ok THEN left
      ELSE LET r == call_factor_loop(in, left.ps, left.val)
           IN  IF ~r.ok THEN r ELSE Ok(r.ps, as_binary_op(r.val))

term_loop(in, ps, left) ==
  LET op_type == parse_operator(ps)
  IN  IF op_type = nullopt THEN Ok(ps, left)
      ELSE LET a == call_advance(in, ps)
           IN  IF ~a.ok THEN a
               ELSE LET right == call_parse_factor(in, a.ps)
                    IN  IF ~right.ok THEN right
                        ELSE call_term_loop(in, right.ps,
                                       Binary_op(op_type[1], left, right.val))

parse_term(in, ps) ==
  LET left == call_parse_factor(in, ps)
  IN  IF ~left.ok THEN left ELSE call_term_loop(in, left.ps, left.val)

expression_loop(in, ps, left) ==
  LET op_type == parse_operator(ps)
  IN  IF op_type = nullopt THEN Ok(ps, left)
      ELSE LET a == call_advance(in, ps)
           IN  IF ~a.ok THEN a
               ELSE LET right == call_parse_term(in, a.ps)
                    IN  IF ~right.ok THEN right
                        ELSE call_expression_loop(in, right.ps,
                                             Binary_op(op_type[1], left, right.val))

parse_expression(in, ps) ==
  LET left == call_parse_term(in, ps)
  IN  IF ~left.ok THEN left ELSE call_expression_loop(in, left.ps, left.val)

(***************************************************************************)
(* Parser: SELECT                                                          *)
(***************************************************************************)
parse_column_expression(in, ps) ==
  LET is_call == call_identifier_before(in, ps, str("("))
  IN  IF ~is_call.ok THEN is_call ELSE
  LET case == IF is_call.val THEN Ok(is_call.ps, FALSE)
              ELSE call_match(in, is_call.ps, "KEYWORD", str("CASE"))
  IN  IF ~case.ok THEN case
      ELSE IF case.val THEN Fail(case.ps, "Case expressions are not supported")
      ELSE
  LET expr == IF is_call.val THEN call_parse_function_call(in, case.ps)
              ELSE call_parse_expression(in, case.ps)
  IN  IF ~expr.ok THEN expr ELSE
  LET as == call_match(in, expr.ps, "KEYWORD", str("AS"))
  IN  IF ~as.ok THEN as
      ELSE IF ~as.val THEN Ok(as.ps, expr.val)
      ELSE IF current(as.ps).m_type # "IDENTIFIER"
        THEN Fail(as.ps, "Expected identifier after AS")
      ELSE IF expr.val.node # "Column_ref"
        THEN Fail(as.ps, "Alias can only be applied to column references")
      ELSE LET a == call_advance(in, as.ps)
           IN  IF ~a.ok THEN a
               ELSE Ok(a.ps, [expr.val EXCEPT !.m_alias = some(current(as.ps).m_value)])

column_loop(in, ps, columns) ==
  LET e == call_parse_column_expression(in, ps)
  IN  IF ~e.ok THEN e
      ELSE LET comma == call_match(in, e.ps, "OPERATOR", str(","))
           IN  IF ~comma.ok THEN comma
               ELSE IF comma.val THEN call_column_loop(in, comma.ps, Append(columns, e.val))
               ELSE Ok(comma.ps, Append(columns, e.val))

\* parse_column_list() with while in place of do ... while: no column
\* expression is parsed when FROM follows at once.
parse_column_list_may_be_empty(in, ps) ==
  LET star == call_match(in, ps, "OPERATOR", str("*"))
  IN  IF ~star.ok THEN star
      ELSE IF star.val THEN Ok(star.ps, <<Column_ref(nullopt, str("*"), nullopt)>>)
      ELSE IF current(star.ps).m_type = "KEYWORD" /\ current(star.ps).m_value = str("FROM")
        THEN Ok(star.ps, <<>>)
      ELSE call_column_loop(in, star.ps, <<>>)

parse_column_list(in, ps) ==
  LET star == call_match(in, ps, "OPERATOR", str("*"))
  IN  IF ~star.ok THEN star
      ELSE IF star.val THEN Ok(star.ps, <<Column_ref(nullopt, str("*"), nullopt)>>)
      ELSE call_column_loop(in, star.ps, <<>>)

parse_table_reference(in, ps) ==
  LET schema == call_identifier_before(in, ps, str("."))
  IN  IF ~schema.ok THEN schema ELSE
  LET skipped == IF schema.val THEN call_advance_times(in, schema.ps, 2)
                 ELSE Ok(schema.ps, TRUE)
      schema_name == IF schema.val THEN some(current(schema.ps).m_value) ELSE nullopt
  IN  IF ~skipped.ok THEN skipped
      ELSE IF current(skipped.ps).m_type # "IDENTIFIER"
        THEN Fail(skipped.ps, "Expected table name")
      ELSE
  LET table_name == current(skipped.ps).m_value
      a == call_advance(in, skipped.ps)
  IN  IF ~a.ok THEN a ELSE
  LET as == call_match(in, a.ps, "KEYWORD", str("AS"))
  IN  IF ~as.ok THEN as
      ELSE IF as.val /\ current(as.ps).m_type # "IDENTIFIER"
        THEN Fail(as.ps, "Expected identifier after AS")
      ELSE IF current(as.ps).m_type = "IDENTIFIER"
        THEN LET b == call_advance(in, as.ps)
             IN  IF ~b.ok THEN b
                 ELSE Ok(b.ps, Table_ref(schema_name, table_name,
                                         some(current(as.ps).m_value)))
      ELSE Ok(as.ps, Table_ref(schema_name, table_name, nullopt))

\* if (match(KEYWORD, "OUTER")) { (void) match(KEYWORD, "JOIN"); }
optional_outer(in, ps) ==
  LET outer == call_match(in, ps, "KEYWORD", str("OUTER"))
  IN  IF ~outer.ok \/ ~outer.val THEN outer
      ELSE call_match(in, outer.ps, "KEYWORD", str("JOIN"))

join_type_from(in, ps, words) ==
  IF words = <<>> THEN Ok(ps, nullopt)
  ELSE LET word == call_match(in, ps, "KEYWORD", str(Head(words)[1]))
       IN  IF ~word.ok THEN word
           ELSE IF ~word.val THEN call_join_type_from(in, word.ps, Tail(words))
           ELSE IF Head(words)[2] = "inner" THEN Ok(word.ps, some("inner"))
           ELSE LET outer == call_optional_outer(in, word.ps)
                IN  IF ~outer.ok THEN outer
                    ELSE Ok(outer.ps, some(Head(words)[2]))

\* The chain of conditions that choose the join type.
join_type(in, ps) ==
  call_join_type_from(in, ps, << <<"INNER", "inner">>, <<"JOIN", "inner">>,
                            <<"LEFT", "left">>, <<"RIGHT", "right">>,
                            <<"FULL", "full">> >>)

\* The body of for (;;) after a join type was found: it always throws.
parse_join(in, ps) ==
  LET join == call_match(in, ps, "KEYWORD", str("JOIN"))
  IN  IF ~join.ok THEN join
      ELSE IF ~join.val THEN Fail(join.ps, "Expected JOIN keyword")
      ELSE
  LET right == call_parse_table_reference(in, join.ps)
  IN  IF ~right.ok THEN right ELSE
  LET on == call_match(in, right.ps, "KEYWORD", str("ON"))
  IN  IF ~on.ok THEN on
      ELSE IF ~on.val THEN Fail(on.ps, "Expected ON after JOIN")
      ELSE LET condition == call_parse_expression(in, on.ps)
           IN  IF ~condition.ok THEN condition
               ELSE Fail(condition.ps, "JOINs are not supported")

parse_table_references_from(in, ps, tables) ==
  LET table == call_parse_table_reference(in, ps)
  IN  IF ~table.ok THEN table ELSE
  LET type == call_join_type(in, table.ps)
  IN  IF ~type.ok THEN type
      ELSE IF type.val # nullopt THEN call_parse_join(in, type.ps)
      ELSE
  LET comma == call_match(in, type.ps, "OPERATOR", str(","))
  IN  IF ~comma.ok THEN comma
      ELSE IF comma.val
        THEN call_parse_table_references_from(in, comma.ps, Append(tables, table.val))
      ELSE Ok(comma.ps, Append(tables, table.val))

parse_table_references(in, ps) == call_parse_table_references_from(in, ps, <<>>)

\* parse_where_clause() that parses the condition and returns no node.
parse_where_clause_returns_null(in, ps) ==
  LET condition == call_parse_expression(in, ps)
  IN  IF ~condition.ok THEN condition ELSE Ok(condition.ps, Null)

parse_where_clause(in, ps) ==
  LET condition == call_parse_expression(in, ps)
  IN  IF ~condition.ok THEN condition
      ELSE Ok(condition.ps, Where_clause(condition.val))

group_loop(in, ps, columns) ==
  LET column == call_parse_column_ref(in, ps)
  IN  IF ~column.ok THEN column
      ELSE LET comma == call_match(in, column.ps, "OPERATOR", str(","))
           IN  IF ~comma.ok THEN comma
               ELSE IF comma.val
                 THEN call_group_loop(in, comma.ps, Append(columns, column.val))
               ELSE Ok(comma.ps, Append(columns, column.val))

parse_group_by(in, ps) ==
  LET columns == call_group_loop(in, ps, <<>>)
  IN  IF ~columns.ok THEN columns ELSE Ok(columns.ps, Group_by(columns.val, Null))

parse_limit(in, ps) ==
  IF current(ps).m_type # "NUMBER" THEN Fail(ps, "Expected number after LIMIT")
  ELSE LET a == call_advance(in, ps)
       IN  IF ~a.ok THEN a ELSE Ok(a.ps, some(stoull(current(ps).m_value)))

\* NULLS FIRST / NULLS LAST of one ORDER BY item
parse_nulls(in, ps) ==
  LET nulls == call_match(in, ps, "KEYWORD", str("NULLS"))
  IN  IF ~nulls.ok THEN nulls
      ELSE IF ~nulls.val THEN Ok(nulls.ps, nullopt)
      ELSE
  LET first == call_match(in, nulls.ps, "KEYWORD", str("FIRST"))
  IN  IF ~first.ok THEN first
      ELSE IF first.val THEN Ok(first.ps, some(str("FIRST")))
      ELSE
  LET last == call_match(in, first.ps, "KEYWORD", str("LAST"))
  IN  IF ~last.ok THEN last
      ELSE IF last.val THEN Ok(last.ps, some(str("LAST")))
      ELSE Fail(last.ps, "Expected FIRST or LAST after NULLS")

order_loop(in, ps, items) ==
  LET column == call_parse_column_ref(in, ps)
  IN  IF ~column.ok THEN column ELSE
  LET desc == call_match(in, column.ps, "KEYWORD", str("DESC"))
  IN  IF ~desc.ok THEN desc ELSE
  LET asc == IF desc.val THEN desc ELSE call_match(in, desc.ps, "KEYWORD", str("ASC"))
  IN  IF ~asc.ok THEN asc ELSE
  LET nulls == call_parse_nulls(in, asc.ps)
  IN  IF ~nulls.ok THEN nulls ELSE
  LET item == Order_by_item(column.val, ~desc.val, nulls.val)
      comma == call_match(in, nulls.ps, "OPERATOR", str(","))
  IN  IF ~comma.ok THEN comma
      ELSE IF comma.val THEN call_order_loop(in, comma.ps, Append(items, item))
      ELSE Ok(comma.ps, Append(items, item))

parse_order_by(in, ps) == call_order_loop(in, ps, <<>>)

\* The optional clauses of parse_select_statement: for (;;) { ... }
select_clauses(in, ps, select) ==
  LET where == call_match(in, ps, "KEYWORD", str("WHERE"))
  IN  IF ~where.ok THEN where
      ELSE IF where.val
        THEN IF select.m_where # Null THEN Fail(where.ps, "Duplicate WHERE clause")
             ELSE LET w == call_parse_where_clause(in, where.ps)
                  IN  IF ~w.ok THEN w
                      ELSE call_select_clauses(in, w.ps, [select EXCEPT !.m_where = w.val])
      ELSE
  LET group == call_match(in, where.ps, "KEYWORD", str("GROUP"))
  IN  IF ~group.ok THEN group
      ELSE IF group.val
        THEN IF select.m_group_by # Null
               THEN Fail(group.ps, "Duplicate GROUP BY clause")
             ELSE LET by == call_match(in, group.ps, "KEYWORD", str("BY"))
                  IN  IF ~by.ok THEN by
                      ELSE IF ~by.val THEN Fail(by.ps, "Expected BY after GROUP")
                      ELSE LET g == call_parse_group_by(in, by.ps)
                           IN  IF ~g.ok THEN g
                               ELSE call_select_clauses(in, g.ps,
                                                   [select EXCEPT !.m_group_by = g.val])
      ELSE
  LET having == call_match(in, group.ps, "KEYWORD", str("HAVING"))
  IN  IF ~having.ok THEN having
      ELSE IF having.val
        THEN IF select.m_group_by = Null
               THEN Fail(having.ps, "HAVING clause without GROUP BY")
             ELSE IF select.m_group_by.m_having # Null
               THEN Fail(having.ps, "Duplicate HAVING clause")
             ELSE LET h == call_parse_expression(in, having.ps)
                  IN  IF ~h.ok THEN h
                      ELSE call_select_clauses(in, h.ps,
                                          [select EXCEPT !.m_group_by.m_having = h.val])
      ELSE
  LET order == call_match(in, having.ps, "KEYWORD", str("ORDER"))
  IN  IF ~order.ok THEN order
      ELSE IF order.val
        THEN IF select.m_order_by # <<>>
               THEN Fail(order.ps, "Duplicate ORDER BY clause")
             ELSE LET by == call_match(in, order.ps, "KEYWORD", str("BY"))
                  IN  IF ~by.ok THEN by
                      ELSE IF ~by.val THEN Fail(by.ps, "Expected BY after ORDER")
                      ELSE LET o == call_parse_order_by(in, by.ps)
                           IN  IF ~o.ok THEN o
                               ELSE call_select_clauses(in, o.ps,
                                                   [select EXCEPT !.m_order_by = o.val])
      ELSE
  LET limit == call_match(in, order.ps, "KEYWORD", str("LIMIT"))
  IN  IF ~limit.ok THEN limit
      ELSE IF limit.val
        THEN IF select.m_limit # nullopt THEN Fail(limit.ps, "Duplicate LIMIT clause")
             ELSE LET l == call_parse_limit(in, limit.ps)
                  IN  IF ~l.ok THEN l
                      ELSE call_select_clauses(in, l.ps, [select EXCEPT !.m_limit = l.val])
      ELSE Ok(limit.ps, select)

parse_select_statement(in, ps) ==
  LET distinct == call_match(in, ps, "KEYWORD", str("DISTINCT"))
  IN  IF ~distinct.ok THEN distinct ELSE
  LET columns == call_parse_column_list(in, distinct.ps)
  IN  IF ~columns.ok THEN columns ELSE
  LET from == call_match(in, columns.ps, "KEYWORD", str("FROM"))
  IN  IF ~from.ok THEN from
      ELSE IF ~from.val THEN Fail(from.ps, "Expected FROM clause")
      ELSE
  LET tables == call_parse_table_references(in, from.ps)
  IN  IF ~tables.ok THEN tables
      ELSE call_select_clauses(in, tables.ps,
                          Select_stmt(distinct.val, columns.val, tables.val,
                                      Null, Null, <<>>, nullopt))

(***************************************************************************)
(* Parser: UPDATE, DELETE, INSERT and the statement dispatch               *)
(***************************************************************************)
Assignment(column, value) == [m_column |-> column, m_value |-> value]
Update_stmt(table, assignments, where, order_by, limit) ==
  [node |-> "Update_stmt", m_table |-> table, m_assignments |-> assignments,
   m_where |-> where, m_order_by |-> order_by, m_limit |-> limit]
Delete_stmt(table, using, where, order_by, limit) ==
  [node |-> "Delete_stmt", m_table |-> table, m_using |-> using,
   m_where |-> where, m_order_by |-> order_by, m_limit |-> limit]
Insert_stmt(table_name, columns, values, on_duplicate) ==
  [node |-> "Insert_stmt", m_table_name |-> table_name, m_columns |-> columns,
   m_values |-> values, m_on_duplicate |-> on_duplicate]

assignment_loop(in, ps, assignments) ==
  IF current(ps).m_type # "IDENTIFIER" THEN Fail(ps, "Expected column name")
  ELSE
  LET a == call_advance(in, ps)
  IN  IF ~a.ok THEN a ELSE
  LET equals == call_match(in, a.ps, "OPERATOR", str("="))
  IN  IF ~equals.ok THEN equals
      ELSE IF ~equals.val THEN Fail(equals.ps, "Expected = in assignment")
      ELSE
  LET value == call_parse_expression(in, equals.ps)
  IN  IF ~value.ok THEN value ELSE
  LET all == Append(assignments, Assignment(current(ps).m_value, value.val))
      comma == call_match(in, value.ps, "OPERATOR", str(","))
  IN  IF ~comma.ok THEN comma
      ELSE IF comma.val THEN call_assignment_loop(in, comma.ps, all)
      ELSE Ok(comma.ps, all)

parse_update_assignments(in, ps) == call_assignment_loop(in, ps, <<>>)

\* The optional WHERE, ORDER BY and LIMIT that end UPDATE and DELETE, each
\* looked for once and in this order.
optional_tail(in, ps, stmt) ==
  LET where == call_match(in, ps, "KEYWORD", str("WHERE"))
  IN  IF ~where.ok THEN where ELSE
  LET w == IF where.val THEN call_parse_where_clause(in, where.ps) ELSE Ok(where.ps, Null)
  IN  IF ~w.ok THEN w ELSE
  LET order == call_match(in, w.ps, "KEYWORD", str("ORDER"))
  IN  IF ~order.ok THEN order ELSE
  LET by == IF order.val THEN call_match(in, order.ps, "KEYWORD", str("BY"))
            ELSE Ok(order.ps, FALSE)
  IN  IF ~by.ok THEN by
      ELSE IF order.val /\ ~by.val THEN Fail(by.ps, "Expected BY after ORDER")
      ELSE
  LET o == IF order.val THEN call_parse_order_by(in, by.ps) ELSE Ok(by.ps, <<>>)
  IN  IF ~o.ok THEN o ELSE
  LET limit == call_match(in, o.ps, "KEYWORD", str("LIMIT"))
  IN  IF ~limit.ok THEN limit ELSE
  LET l == IF limit.val THEN call_parse_limit(in, limit.ps) ELSE Ok(limit.ps, nullopt)
  IN  IF ~l.ok THEN l
      ELSE Ok(l.ps, [stmt EXCEPT !.m_where = w.val, !.m_order_by = o.val,
                                 !.m_limit = l.val])

parse_update_statement(in, ps) ==
  LET table == call_parse_table_reference(in, ps)
  IN  IF ~table.ok THEN table ELSE
  LET set == call_match(in, table.ps, "KEYWORD", str("SET"))
  IN  IF ~set.ok THEN set
      ELSE IF ~set.val THEN Fail(set.ps, "Expected SET clause")
      ELSE
  LET assignments == call_parse_update_assignments(in, set.ps)
  IN  IF ~assignments.ok THEN assignments
      ELSE call_optional_tail(in, assignments.ps,
                         Update_stmt(table.val, assignments.val, Null, <<>>, nullopt))

parse_delete_statement(in, ps) ==
  LET from == call_match(in, ps, "KEYWORD", str("FROM"))
  IN  IF ~from.ok THEN from
      ELSE IF ~from.val THEN Fail(from.ps, "Expected FROM after DELETE")
      ELSE
  LET table == call_parse_table_reference(in, from.ps)
  IN  IF ~table.ok THEN table ELSE
  LET using == call_match(in, table.ps, "KEYWORD", str("USING"))
  IN  IF ~using.ok THEN using ELSE
  LET tables == IF using.val THEN call_parse_table_references(in, using.ps)
                ELSE Ok(using.ps, <<>>)
  IN  IF ~tables.ok THEN tables
      ELSE call_optional_tail(in, tables.ps,
                         Delete_stmt(table.val,
                                     IF using.val THEN some(tables.val) ELSE nullopt,
                                     Null, <<>>, nullopt))

value_lists_loop(in, ps, value_lists) ==
  LET open == call_match(in, ps, "OPERATOR", str("("))
  IN  IF ~open.ok THEN open
      ELSE IF ~open.val THEN Fail(open.ps, "Expected opening parenthesis")
      ELSE
  LET values == call_argument_loop(in, open.ps, <<>>)
  IN  IF ~values.ok THEN values ELSE
  LET close == call_match(in, values.ps, "OPERATOR", str(")"))
  IN  IF ~close.ok THEN close
      ELSE IF ~close.val THEN Fail(close.ps, "Expected closing parenthesis")
      ELSE
  LET comma == call_match(in, close.ps, "OPERATOR", str(","))
  IN  IF ~comma.ok THEN comma
      ELSE IF comma.val
        THEN call_value_lists_loop(in, comma.ps, Append(value_lists, values.val))
      ELSE Ok(comma.ps, Append(value_lists, values.val))

parse_value_lists(in, ps) == call_value_lists_loop(in, ps, <<>>)

\* The column names of INSERT INTO t (c1, c2, ...)
insert_columns_loop(in, ps, columns) ==
  IF current(ps).m_type # "IDENTIFIER" THEN Fail(ps, "Expected column name")
  ELSE
  LET a == call_advance(in, ps)
  IN  IF ~a.ok THEN a ELSE
  LET all == Append(columns, current(ps).m_value)
      comma == call_match(in, a.ps, "OPERATOR", str(","))
  IN  IF ~comma.ok THEN comma
      ELSE IF comma.val THEN call_insert_columns_loop(in, comma.ps, all)
      ELSE
  LET close == call_match(in, comma.ps, "OPERATOR", str(")"))
  IN  IF ~close.ok THEN close
      ELSE IF ~close.val THEN Fail(close.ps, "Expected closing parenthesis")
      ELSE Ok(close.ps, all)

\* ON DUPLICATE KEY UPDATE assignments
parse_on_duplicate(in, ps) ==
  LET on == call_match(in, ps, "KEYWORD", str("ON"))
  IN  IF ~on.ok THEN on
      ELSE IF ~on.val THEN Ok(on.ps, nullopt)
      ELSE
  LET duplicate == call_match(in, on.ps, "KEYWORD", str("DUPLICATE"))
  IN  IF ~duplicate.ok THEN duplicate
      ELSE IF ~duplicate.val THEN Fail(duplicate.ps, "Expected DUPLICATE after ON")
      ELSE
  LET key == call_match(in, duplicate.ps, "KEYWORD", str("KEY"))
  IN  IF ~key.ok THEN key
      ELSE IF ~key.val THEN Fail(key.ps, "Expected KEY after DUPLICATE")
      ELSE
  LET update == call_match(in, key.ps, "KEYWORD", str("UPDATE"))
  IN  IF ~update.ok THEN update
      ELSE IF ~update.val THEN Fail(update.ps, "Expected UPDATE after KEY")
      ELSE LET assignments == call_parse_update_assignments(in, update.ps)
           IN  IF ~assignments.ok THEN assignments
               ELSE Ok(assignments.ps, some(assignments.val))

parse_insert_statement(in, ps) ==
  LET into == call_match(in, ps, "KEYWORD", str("INTO"))
  IN  IF ~into.ok THEN into
      ELSE IF ~into.val THEN Fail(into.ps, "Expected INTO after INSERT")
      ELSE IF current(into.ps).m_type # "IDENTIFIER"
        THEN Fail(into.ps, "Expected table name")
      ELSE
  LET table_name == current(into.ps).m_value
      a == call_advance(in, into.ps)
  IN  IF ~a.ok THEN a ELSE
  LET open == call_match(in, a.ps, "OPERATOR", str("("))
  IN  IF ~open.ok THEN open ELSE
  LET columns == IF open.val THEN call_insert_columns_loop(in, open.ps, <<>>)
                 ELSE Ok(open.ps, <<>>)
  IN  IF ~columns.ok THEN columns ELSE
  LET values == call_match(in, columns.ps, "KEYWORD", str("VALUES"))
  IN  IF ~values.ok THEN values ELSE
  LET select == IF values.val THEN Ok(values.ps, FALSE)
                ELSE call_match(in, values.ps, "KEYWORD", str("SELECT"))
  IN  IF ~select.ok THEN select
      ELSE IF ~values.val /\ ~select.val
        THEN Fail(select.ps, "Expected VALUES or SELECT")
      ELSE
  LET source == IF values.val THEN call_parse_value_lists(in, select.ps)
                ELSE call_parse_select_statement(in, select.ps)
  IN  IF ~source.ok THEN source ELSE
  LET on_duplicate == call_parse_on_duplicate(in, source.ps)
  IN  IF ~on_duplicate.ok THEN on_duplicate
      ELSE Ok(on_duplicate.ps,
              Insert_stmt(table_name, columns.val, source.val, on_duplicate.val))

parse_alter_statement(in, ps) == Fail(ps, "ALTER not implemented")

statements ==
  <<"SELECT", "INSERT", "UPDATE", "DELETE", "CREATE", "DROP", "ALTER">>

parse_statement_from(in, ps, words) ==
  IF words = <<>> THEN Fail(ps, "Unexpected token at start of statement")
  ELSE LET word == call_match(in, ps, "KEYWORD", str(Head(words)))
       IN  IF ~word.ok THEN word
           ELSE IF ~word.val THEN call_parse_statement_from(in, word.ps, Tail(words))
           ELSE CASE Head(words) = "SELECT" -> call_parse_select_statement(in, word.ps)
                  [] Head(words) = "INSERT" -> call_parse_insert_statement(in, word.ps)
                  [] Head(words) = "UPDATE" -> call_parse_update_statement(in, word.ps)
                  [] Head(words) = "DELETE" -> call_parse_delete_statement(in, word.ps)
                  [] Head(words) = "CREATE" -> beyond_model(word.ps, "parse_create_statement")
                  [] Head(words) = "DROP" -> beyond_model(word.ps, "parse_drop_statement")
                  [] Head(words) = "ALTER" -> call_parse_alter_statement(in, word.ps)

parse_statement(in, ps) == call_parse_statement_from(in, ps, statements)

parse(in, ps) == call_parse_statement(in, ps)

call(routine, in, ps, args) ==
  CASE routine = "advance" -> advance(in, ps)
    [] routine = "expect_type" -> expect_type(in, ps, args[1])
    [] routine = "expect" -> expect(in, ps, args[1], args[2])
    [] routine = "match_type" -> match_type(in, ps, args[1])
    [] routine = "match" -> match(in, ps, args[1], args[2])
    [] routine = "advance_times" -> advance_times(in, ps, args[1])
    [] routine = "peek" -> peek(in, ps, args[1])
    [] routine = "parse_literal" -> parse_literal(in, ps)
    [] routine = "parse_column_ref" -> parse_column_ref(in, ps)
    [] routine = "parse_optional_over_clause" -> parse_optional_over_clause(in, ps, args[1])
    [] routine = "argument_loop" -> argument_loop(in, ps, args[1])
    [] routine = "parse_function_call" -> parse_function_call(in, ps)
    [] routine = "identifier_before" -> identifier_before(in, ps, args[1])
    [] routine = "parse_primary" -> parse_primary(in, ps)
    [] routine = "factor_loop" -> factor_loop(in, ps, args[1])
    [] routine = "parse_factor" -> parse_factor(in, ps)
    [] routine = "term_loop" -> term_loop(in, ps, args[1])
    [] routine = "parse_term" -> parse_term(in, ps)
    [] routine = "expression_loop" -> expression_loop(in, ps, args[1])
    [] routine = "parse_expression" -> parse_expression(in, ps)
    [] routine = "parse_column_expression" -> parse_column_expression(in, ps)
    [] routine = "column_loop" -> column_loop(in, ps, args[1])
    [] routine = "parse_column_list" -> parse_column_list(in, ps)
    [] routine = "parse_table_reference" -> parse_table_reference(in, ps)
    [] routine = "optional_outer" -> optional_outer(in, ps)
    [] routine = "join_type_from" -> join_type_from(in, ps, args[1])
    [] routine = "join_type" -> join_type(in, ps)
    [] routine = "parse_join" -> parse_join(in, ps)
    [] routine = "parse_table_references_from" -> parse_table_references_from(in, ps, args[1])
    [] routine = "parse_table_references" -> parse_table_references(in, ps)
    [] routine = "parse_where_clause" -> parse_where_clause(in, ps)
    [] routine = "group_loop" -> group_loop(in, ps, args[1])
    [] routine = "parse_group_by" -> parse_group_by(in, ps)
    [] routine = "parse_limit" -> parse_limit(in, ps)
    [] routine = "parse_nulls" -> parse_nulls(in, ps)
    [] routine = "order_loop" -> order_loop(in, ps, args[1])
    [] routine = "parse_order_by" -> parse_order_by(in, ps)
    [] routine = "select_clauses" -> select_clauses(in, ps, args[1])
    [] routine = "parse_select_statement" -> parse_select_statement(in, ps)
    [] routine = "assignment_loop" -> assignment_loop(in, ps, args[1])
    [] routine = "parse_update_assignments" -> parse_update_assignments(in, ps)
    [] routine = "optional_tail" -> optional_tail(in, ps, args[1])
    [] routine = "parse_update_statement" -> parse_update_statement(in, ps)
    [] routine = "parse_delete_statement" -> parse_delete_statement(in, ps)
    [] routine = "value_lists_loop" -> value_lists_loop(in, ps, args[1])
    [] routine = "parse_value_lists" -> parse_value_lists(in, ps)
    [] routine = "insert_columns_loop" -> insert_columns_loop(in, ps, args[1])
    [] routine = "parse_on_duplicate" -> parse_on_duplicate(in, ps)
    [] routine = "parse_insert_statement" -> parse_insert_statement(in, ps)
    [] routine = "parse_alter_statement" -> parse_alter_statement(in, ps)
    [] routine = "parse_statement_from" -> parse_statement_from(in, ps, args[1])
    [] routine = "parse_statement" -> parse_statement(in, ps)
    [] routine = "parse" -> parse(in, ps)

(***************************************************************************)
(* State                                                                   *)
(***************************************************************************)
VARIABLES
  m_input,   \* Lexer::m_input
  m_pos,     \* Lexer::m_pos
  m_line,    \* Lexer::m_line
  m_col,     \* Lexer::m_col
  pulls,     \* history: one record per lexeme pulled from the lexer so far
  m_state_stack,  \* Parser::m_state_stack; empty while no Parser exists
  result,    \* what parse() returned or threw, once it has run
  original,  \* history: the input before it was edited, and its outcome
  savepoints,  \* the Savepoint objects in scope, the innermost last
  called,    \* history: the last call of a member function and its outcome
  saved      \* history: per state id, who saved it and the parser it left

vars ==
  <<m_input, m_pos, m_line, m_col, pulls, m_state_stack, result, original,
    savepoints, called, saved>>

\* What only the calls of the state primitives change.
primitive_vars == <<savepoints, called, saved>>

lexer == Cursor(m_pos, m_line, m_col)

\* All texts over a character set, up to a length.
Texts(chars, n) == UNION {[1..k -> chars] : k \in 0..n}

\* Mixed inputs: a letter, a digit, the dot, the quote, the backslash, blank
\* and line break, and the two halves of a two-character operator.
MixedChars == {"a", "1", ".", "'", "\\", " ", "\n", "<", "="}
\* Words: letters in both cases that spell keywords and identifiers.
WordChars == {"O", "o", "R", "r", "A", "S", "_", " "}

LexerInputs == Texts(MixedChars, MaxLen) \cup Texts(WordChars, MaxLen)

\* Lexer::Lexer(std::string_view input)
Init ==
  /\ m_input \in LexerInputs
  /\ m_pos = 0
  /\ m_line = 1
  /\ m_col = 1
  /\ pulls = <<>>
  /\ m_state_stack = <<>>
  /\ result = nullopt
  /\ original = nullopt
  /\ savepoints = <<>>
  /\ called = nullopt
  /\ saved = <<>>

EofPulls == Cardinality({i \in DOMAIN pulls : pulls[i].lexeme.m_type = "END_OF_FILE"})

\* Lexer::next_token() followed by Token::get_lexeme()
NextToken ==
  /\ EofPulls <= MaxEofPulls
  /\ LET r == next_token(m_input, lexer)
     IN  /\ m_pos' = r.lx.m_pos
         /\ m_line' = r.lx.m_line
         /\ m_col' = r.lx.m_col
         /\ pulls' = Append(pulls, [lexeme |-> r.lexeme, threw |-> r.threw,
                                    from |-> lexer, to |-> r.lx])
  /\ UNCHANGED <<m_input, m_state_stack, result, original>>
  /\ UNCHANGED primitive_vars

Next == NextToken

Spec == Init /\ [][Next]_vars

(***************************************************************************)
(* Properties of the lexer                                                 *)
(***************************************************************************)
Pulled == DOMAIN pulls
Threw(i) == pulls[i].threw
IsEnd(i) == ~Threw(i) /\ pulls[i].lexeme.m_type = "END_OF_FILE"
IsLexeme(i) == ~Threw(i) /\ pulls[i].lexeme.m_type # "END_OF_FILE"
NoFailure == \A i \in Pulled : ~Threw(i)

\* The offset of the first character at or after p that is no whitespace
\* (the length of the input when there is none).
FirstNonSpace(in, p) ==
  CHOOSE q \in p..Len(in) :
    /\ q = Len(in) \/ ~isspace(At(in, q))
    /\ \A k \in p..(q - 1) : isspace(At(in, k))

\* The offset of the first character of what pull i scanned.
StartOf(i) == FirstNonSpace(m_input, pulls[i].from.m_pos)

\* The source text pull i consumed, from its first character on.
RawOf(i) == substr(m_input, StartOf(i), pulls[i].to.m_pos - StartOf(i))

\* C1: on an input the lexer does not fail on, the pulls return at most
\* |input| lexemes other than END_OF_FILE, then END_OF_FILE; and every pull
\* after the first END_OF_FILE returns END_OF_FILE again and leaves the
\* cursor (m_pos, m_line, m_col) as it was.
C1_EndOfFileIsFinal ==
  NoFailure =>
    /\ Cardinality({i \in Pulled : IsLexeme(i)}) <= Len(m_input)
    /\ \A i \in Pulled : IsLexeme(i) => pulls[i].to.m_pos > pulls[i].from.m_pos
    /\ \A i \in Pulled : IsEnd(i) =>
         \A j \in (i + 1)..Len(pulls) : IsEnd(j) /\ pulls[j].to = pulls[j].from

C1_Witness ==
  /\ NoFailure
  /\ Len(pulls) >= 4
  /\ IsLexeme(1) /\ IsLexeme(2)
  /\ IsEnd(Len(pulls) - 1) /\ IsEnd(Len(pulls))
  /\ m_pos = Len(m_input)

\* Whether a string literal whose scan stands at offset p has a terminating
\* quote: a backslash takes the character after it along, a doubled quote is
\* one quote of the text, any other quote terminates.
RECURSIVE Terminated(_, _)
Terminated(in, p) ==
  IF p >= Len(in) THEN FALSE
  ELSE IF At(in, p) = Backslash THEN Terminated(in, p + 2)
  ELSE IF At(in, p) = Quote
         THEN IF p + 1 < Len(in) /\ At(in, p + 1) = Quote
                THEN Terminated(in, p + 2)
                ELSE TRUE
  ELSE Terminated(in, p + 1)

\* C2: a pull fails exactly when it starts a string literal that has no
\* terminating quote; a pull that starts at any character other than
\* whitespace, a letter, '_', a digit or the quote returns an OPERATOR
\* lexeme beginning with that character.
C2_FailsOnlyOnUnterminatedString ==
  \A i \in Pulled :
    LET q == StartOf(i)
    IN  /\ Threw(i) <=>
             (q < Len(m_input) /\ At(m_input, q) = Quote /\ ~Terminated(m_input, q + 1))
        /\ (/\ q < Len(m_input)
            /\ ~isalpha(At(m_input, q)) /\ At(m_input, q) # "_"
            /\ ~isdigit(At(m_input, q)) /\ At(m_input, q) # Quote)
           => /\ ~Threw(i)
              /\ pulls[i].lexeme.m_type = "OPERATOR"
              /\ pulls[i].lexeme.m_value[1] = At(m_input, q)

C2_Witness ==
  /\ Len(pulls) = 2
  /\ pulls[1].lexeme.m_type = "OPERATOR" /\ pulls[1].lexeme.m_value = <<Backslash>>
  /\ Threw(2)
  /\ At(m_input, Len(m_input) - 1) = Quote

\* The 1-based line and column of offset p of the input: a line break
\* advances the line and resets the column, any other character advances
\* the column.
LineOf(in, p) == 1 + Cardinality({k \in 0..(p - 1) : At(in, k) = Newline})
ColumnOf(in, p) ==
  LET breaks == {k \in 0..(p - 1) : At(in, k) = Newline}
  IN  IF breaks = {} THEN p + 1
      ELSE p - (CHOOSE k \in breaks : \A j \in breaks : j <= k)

\* C3: every lexeme other than END_OF_FILE carries the line and column of
\* its first character.
C3_PositionIsFirstCharacter ==
  \A i \in Pulled :
    IsLexeme(i) =>
      /\ pulls[i].lexeme.m_line = LineOf(m_input, StartOf(i))
      /\ pulls[i].lexeme.m_col = ColumnOf(m_input, StartOf(i))

\* C4: of two lexemes other than END_OF_FILE returned by successive pulls,
\* the later one's (line, column) is lexicographically at or after the
\* earlier one's; every such lexeme has line >= 1 and column >= 1.
C4_PositionsNeverDecrease ==
  /\ \A i \in Pulled : IsLexeme(i) =>
       pulls[i].lexeme.m_line >= 1 /\ pulls[i].lexeme.m_col >= 1
  /\ \A i \in Pulled : (i + 1 \in Pulled /\ IsLexeme(i) /\ IsLexeme(i + 1)) =>
       LET a == pulls[i].lexeme
           b == pulls[i + 1].lexeme
       IN  \/ a.m_line < b.m_line
           \/ a.m_line = b.m_line /\ a.m_col <= b.m_col

C4_Witness ==
  /\ Len(pulls) = 2
  /\ IsLexeme(1) /\ IsLexeme(2)
  /\ pulls[2].lexeme.m_line > pulls[1].lexeme.m_line
  /\ pulls[2].lexeme.m_col < pulls[1].lexeme.m_col

\* The keyword set of the specification: the DML list the lexer holds and
\* the DDL-specific list.
DdlKeywords == {
  <<"T","A","B","L","E">>, <<"I","N","D","E","X">>, <<"V","I","E","W">>,
  <<"C","R","E","A","T","E">>, <<"D","R","O","P">>, <<"A","L","T","E","R">>,
  <<"T","R","U","N","C","A","T","E">>, <<"M","E","R","G","E">>, <<"G","R","A","N","T">>,
  <<"R","E","V","O","K","E">>, <<"I","F">>, <<"E","X","I","S","T","S">>,
  <<"P","R","I","M","A","R","Y">>, <<"F","O","R","E","I","G","N">>, <<"K","E","Y">>,
  <<"U","N","I","Q","U","E">>, <<"C","H","E","C","K">>,
  <<"R","E","F","E","R","E","N","C","E","S">>, <<"C","A","S","C","A","D","E">>,
  <<"R","E","S","T","R","I","C","T">>, <<"A","C","T","I","O","N">>, <<"M","A","T","C","H">>,
  <<"S","I","M","P","L","E">>, <<"P","A","R","T","I","A","L">>,
  <<"E","N","F","O","R","C","E","D">>, <<"V","A","L","U","E","S">>, <<"I","N","T","O">>,
  <<"D","E","F","A","U","L","T">>, <<"A","U","T","O","_","I","N","C","R","E","M","E","N","T">>,
  <<"C","O","M","M","E","N","T">>, <<"E","N","G","I","N","E">>,
  <<"C","H","A","R","A","C","T","E","R">>, <<"C","H","A","R","S","E","T">>,
  <<"C","O","L","L","A","T","E">>, <<"R","O","W","_","F","O","R","M","A","T">>,
  <<"K","E","Y","_","B","L","O","C","K","_","S","I","Z","E">>, <<"M","A","X","_","R","O","W","S">>,
  <<"M","I","N","_","R","O","W","S">>, <<"T","A","B","L","E","S","P","A","C","E">>,
  <<"P","A","R","T","I","T","I","O","N">>, <<"R","A","N","G","E">>, <<"L","I","S","T">>,
  <<"H","A","S","H">>, <<"O","V","E","R">>, <<"P","R","E","C","E","D","I","N","G">>,
  <<"F","O","L","L","O","W","I","N","G">>, <<"U","N","B","O","U","N","D","E","D">>,
  <<"C","U","R","R","E","N","T">>, <<"B","E","T","W","E","E","N">>,
  <<"E","X","C","L","U","D","E">>, <<"O","T","H","E","R","S">>, <<"T","I","E","S">>,
  <<"G","R","O","U","P","S">>, <<"A","S">>, <<"C","A","S","E">>, <<"W","H","E","N">>,
  <<"T","H","E","N">>, <<"E","L","S","E">>, <<"E","N","D">>, <<"I","S">>, <<"I","N">>,
  <<"D","U","P","L","I","C","A","T","E">>
}
SpecKeywords == keywords \cup DdlKeywords

IsWordStart(c) == isalpha(c) \/ c = "_"

\* C5: a lexeme scanned as [A-Za-z_][A-Za-z0-9_]* is a KEYWORD exactly when
\* its upper-cased form is in the specification's keyword set, an IDENTIFIER
\* otherwise, and its text is the source text in its original casing.
C5_KeywordClassification ==
  \A i \in Pulled :
    (StartOf(i) < Len(m_input) /\ IsWordStart(At(m_input, StartOf(i)))) =>
      /\ ~Threw(i)
      /\ pulls[i].lexeme.m_value = RawOf(i)
      /\ pulls[i].lexeme.m_type =
           IF to_upper(RawOf(i)) \in SpecKeywords THEN "KEYWORD" ELSE "IDENTIFIER"

\* digits, optionally followed by one '.' and one or more digits
IsNumberText(t) ==
  /\ t # <<>>
  /\ \/ \A k \in DOMAIN t : isdigit(t[k])
     \/ \E d \in 2..(Len(t) - 1) :
          /\ t[d] = "."
          /\ \A k \in DOMAIN t \ {d} : isdigit(t[k])

\* C6: the text of every NUMBER lexeme is digits, optionally followed by one
\* '.' and one or more digits, and is the longest prefix of that form at
\* the cursor.
C6_NumberShape ==
  \A i \in Pulled :
    (IsLexeme(i) /\ pulls[i].lexeme.m_type = "NUMBER") =>
      /\ pulls[i].lexeme.m_value = RawOf(i)
      /\ IsNumberText(RawOf(i))
      /\ \A n \in (Len(RawOf(i)) + 1)..(Len(m_input) - StartOf(i)) :
           ~IsNumberText(substr(m_input, StartOf(i), n))

\* The text a string literal's content stands for: a backslash and the
\* character after it give that character, a doubled quote gives one quote,
\* any other character gives itself.
RECURSIVE Decode(_)
Decode(s) ==
  IF s = <<>> THEN <<>>
  ELSE IF Len(s) >= 2 /\ s[1] = Backslash
         THEN <<s[2]>> \o Decode(SubSeq(s, 3, Len(s)))
  ELSE IF Len(s) >= 2 /\ s[1] = Quote /\ s[2] = Quote
         THEN <<Quote>> \o Decode(SubSeq(s, 3, Len(s)))
  ELSE <<s[1]>> \o Decode(Tail(s))

\* C7: the text of a STRING_LITERAL lexeme is the decoded content of the
\* literal, without the opening and the closing quote.
C7_StringTextIsDecodedContent ==
  \A i \in Pulled :
    (IsLexeme(i) /\ pulls[i].lexeme.m_type = "STRING_LITERAL") =>
      LET raw == RawOf(i)
      IN  /\ Len(raw) >= 2
          /\ raw[1] = Quote /\ raw[Len(raw)] = Quote
          /\ pulls[i].lexeme.m_value = Decode(SubSeq(raw, 2, Len(raw) - 1))

C7_Witness ==
  \E i \in Pulled :
    /\ IsLexeme(i) /\ pulls[i].lexeme.m_type = "STRING_LITERAL"
    /\ RawOf(i) = <<Quote, Backslash, Quote, Quote>>
    /\ pulls[i].lexeme.m_value = <<Quote>>

\* A text wrapped in single quotes, each quote inside it doubled.
RECURSIVE DoubleQuotes(_)
DoubleQuotes(t) ==
  IF t = <<>> THEN <<>>
  ELSE (IF t[1] = Quote THEN <<Quote, Quote>> ELSE <<t[1]>>) \o DoubleQuotes(Tail(t))
ReEncode(t) == <<Quote>> \o DoubleQuotes(t) \o <<Quote>>

\* Whether a fresh lexer on the text yields one STRING_LITERAL lexeme with
\* text t and then END_OF_FILE.
LexesToString(text, t) ==
  LET first == next_token(text, Cursor(0, 1, 1))
      second == next_token(text, first.lx)
  IN  /\ ~first.threw
      /\ first.lexeme.m_type = "STRING_LITERAL"
      /\ first.lexeme.m_value = t
      /\ ~second.threw
      /\ second.lexeme.m_type = "END_OF_FILE"

\* C8 as stated: the text of every string literal, re-encoded by quote
\* doubling, is lexed back to one STRING_LITERAL with the same text.
C8_RoundTripOfAnyText ==
  \A i \in Pulled :
    (IsLexeme(i) /\ pulls[i].lexeme.m_type = "STRING_LITERAL") =>
      LexesToString(ReEncode(pulls[i].lexeme.m_value), pulls[i].lexeme.m_value)

\* C8: the text of a string literal that holds no backslash, re-encoded by
\* quote doubling, is lexed back to one STRING_LITERAL with the same text.
C8_RoundTripWithoutBackslash ==
  \A i \in Pulled :
    (/\ IsLexeme(i) /\ pulls[i].lexeme.m_type = "STRING_LITERAL"
     /\ Backslash \notin Range(pulls[i].lexeme.m_value)) =>
      LexesToString(ReEncode(pulls[i].lexeme.m_value), pulls[i].lexeme.m_value)

C8_Witness ==
  \E i \in Pulled :
    /\ IsLexeme(i) /\ pulls[i].lexeme.m_type = "STRING_LITERAL"
    /\ RawOf(i) = <<Quote, Quote, Quote, Quote>>
    /\ pulls[i].lexeme.m_value = <<Quote>>

(***************************************************************************)
(* Parsing: a lexer and a parser on a statement, and the statement edited  *)
(* and parsed again.                                                       *)
(***************************************************************************)
\* Longest run of whitespace inserted into a statement.
MaxWs == 1

SelectHeads == {"SELECT "}
Columns == {"*", "a.b", "f(x),a+1", "COUNT(*)", "'a b'"}
Froms == {" FROM t", " FROM s.t u"}
OtherHeads ==
  {"SELECT DISTINCT a FROM t", "DELETE FROM t", "UPDATE t SET a=1",
   "INSERT INTO t VALUES(1)", "select * FROM t"}
Tails ==
  {"", " WHERE a<=1.5 GROUP BY a HAVING a<2", " ORDER BY a DESC LIMIT 10",
   " WHERE a WHERE b"}

Heads ==
  {str(h) \o str(c) \o str(f) : h \in SelectHeads, c \in Columns, f \in Froms}
    \cup {str(h) : h \in OtherHeads}
Statements == {h \o str(t) : h \in Heads, t \in Tails}

\* get_all_tokens of the lexer tests: the lexemes pulled before END_OF_FILE,
\* here each with the offsets of its first character and of the character
\* after its last, and whether a pull threw.
RECURSIVE get_all_tokens_from(_, _, _)
get_all_tokens_from(in, lx, tokens) ==
  LET r == next_token(in, lx)
  IN  IF r.threw THEN [threw |-> TRUE, tokens |-> tokens]
      ELSE IF r.lexeme.m_type = "END_OF_FILE" THEN [threw |-> FALSE, tokens |-> tokens]
      ELSE get_all_tokens_from(in, r.lx,
             Append(tokens, [lexeme |-> r.lexeme,
                             from |-> FirstNonSpace(in, lx.m_pos),
                             to |-> r.lx.m_pos]))
get_all_tokens(in) == get_all_tokens_from(in, Cursor(0, 1, 1), <<>>)

InitParse ==
  /\ m_input \in Statements
  /\ m_pos = 0
  /\ m_line = 1
  /\ m_col = 1
  /\ pulls = <<>>
  /\ m_state_stack = <<>>
  /\ result = nullopt
  /\ original = nullopt
  /\ savepoints = <<>>
  /\ called = nullopt
  /\ saved = <<>>

\* sql::Parser parser(lexer): when the constructor throws there is no parser
\* and the exception is the outcome.
Construct ==
  /\ m_state_stack = <<>>
  /\ result = nullopt
  /\ \E p \in {Parser(m_input, lexer)} :
         /\ m_pos' = p.ps.lx.m_pos
         /\ m_line' = p.ps.lx.m_line
         /\ m_col' = p.ps.lx.m_col
         /\ m_state_stack' = IF p.ok THEN p.ps.m_state_stack ELSE <<>>
         /\ result' = IF p.ok THEN nullopt ELSE some([ok |-> FALSE, val |-> p.val])
         /\ pulls' = pulls \o p.ps.pulled
  /\ UNCHANGED <<m_input, original>>
  /\ UNCHANGED primitive_vars

\* auto ast = parser.parse()
Parse ==
  /\ m_state_stack # <<>>
  /\ result = nullopt
  /\ \E r \in {parse(m_input, ParserOf(m_state_stack, lexer))} :
         /\ m_pos' = r.ps.lx.m_pos
         /\ m_line' = r.ps.lx.m_line
         /\ m_col' = r.ps.lx.m_col
         /\ m_state_stack' = r.ps.m_state_stack
         /\ result' = some([ok |-> r.ok, val |-> r.val])
         /\ pulls' = pulls \o r.ps.pulled
  /\ UNCHANGED <<m_input, original>>
  /\ UNCHANGED primitive_vars

\* A new lexer on an edited input; the lexer and parser of the input as it
\* was are gone, its outcome is remembered.
Edited(kind, at, text, input) ==
  /\ m_input' = input
  /\ m_pos' = 0
  /\ m_line' = 1
  /\ m_col' = 1
  /\ m_state_stack' = <<>>
  /\ result' = nullopt
  /\ original' = some([edit |-> kind, at |-> at, text |-> text,
                       m_input |-> m_input, result |-> result[1]])
  /\ pulls' = <<>>
  /\ UNCHANGED primitive_vars

WhitespaceRuns == Texts({" ", "\t", "\r", "\n"}, MaxWs) \ {<<>>}

\* The offsets at which a text can be inserted without splitting a lexeme.
Gaps(in) ==
  LET tokens == get_all_tokens(in).tokens
  IN  {p \in 0..Len(in) :
         \A i \in DOMAIN tokens : ~(tokens[i].from < p /\ p < tokens[i].to)}

\* The caller inserts a run of whitespace between two lexemes, before the
\* first or after the last of an input that lexes without failure.
InsertWhitespace ==
  /\ result # nullopt
  /\ original = nullopt
  /\ ~get_all_tokens(m_input).threw
  /\ \E p \in Gaps(m_input), run \in WhitespaceRuns :
       Edited("whitespace", p, run,
              SubSeq(m_input, 1, p) \o run \o SubSeq(m_input, p + 1, Len(m_input)))

LowerOf ==
  [c \in Range(UpperLetters) |->
     LowerLetters[CHOOSE i \in DOMAIN UpperLetters : UpperLetters[i] = c]]
to_lower(s) == [i \in DOMAIN s |-> IF s[i] \in DOMAIN LowerOf THEN LowerOf[s[i]] ELSE s[i]]
capitalised(s) == <<toupper(Head(s))>> \o to_lower(Tail(s))
Spellings(word) == {to_upper(word), to_lower(word), capitalised(word)} \ {word}

\* The caller respells one keyword of an accepted input in another case.
Respell ==
  /\ result # nullopt
  /\ result[1].ok
  /\ original = nullopt
  /\ LET tokens == get_all_tokens(m_input).tokens
     IN  \E i \in DOMAIN tokens :
           /\ tokens[i].lexeme.m_type = "KEYWORD"
           /\ \E word \in Spellings(tokens[i].lexeme.m_value) :
                Edited("case", tokens[i].from, word,
                       SubSeq(m_input, 1, tokens[i].from) \o word
                         \o SubSeq(m_input, tokens[i].to + 1, Len(m_input)))

NextParse == Construct \/ Parse \/ InsertWhitespace \/ Respell

SpecParse == InitParse /\ [][NextParse]_vars

(***************************************************************************)
(* Properties of parsing an edited input                                   *)
(***************************************************************************)
WasEdited(kind) == original # nullopt /\ original[1].edit = kind

\* The (kind, text) pairs of the lexemes of an input.
KindsAndTexts(in) ==
  LET tokens == get_all_tokens(in).tokens
  IN  [i \in DOMAIN tokens |-> <<tokens[i].lexeme.m_type, tokens[i].lexeme.m_value>>]

\* No parse enters a routine the model leaves out.
NoRoutineBeyondModel ==
  result # nullopt =>
    (result[1].ok \/ result[1].val \notin
       {<<"beyond the model", r>> : r \in {"parse_window_specification",
                                          "parse_create_statement",
                                          "parse_drop_statement"}})

C10_KeywordCaseInsensitive ==
  (WasEdited("case") /\ result # nullopt) =>
    /\ result[1].ok
    /\ result[1].val = original[1].result.val

(***************************************************************************)
(* The state primitives: a parsing routine's calls of advance, match,      *)
(* expect, peek, backup, save_state, restore_state and of the members of   *)
(* Savepoint, in any order, on a parser just constructed.                  *)
(***************************************************************************)
\* Most calls made on one parser.
MaxCalls == 5
\* Most elements of m_state_stack.
MaxStack == 3
\* Farthest lookahead.
MaxPeek == 2

PrimitiveInputs == {str("a b c"), str("a\n'' b"), str("a.b 'c")}
ExpectedKinds == {"IDENTIFIER", "OPERATOR"}
ExpectedLexemes == {<<"IDENTIFIER", str("a")>>, <<"IDENTIFIER", str("b")>>}

InitPrimitives ==
  /\ m_input \in PrimitiveInputs
  /\ m_pos = 0
  /\ m_line = 1
  /\ m_col = 1
  /\ pulls = <<>>
  /\ m_state_stack = <<>>
  /\ result = nullopt
  /\ original = nullopt
  /\ savepoints = <<>>
  /\ called = nullopt
  /\ saved = <<>>

parser == ParserOf(m_state_stack, lexer)

Calls == IF called = nullopt THEN 0 ELSE called[1].n

\* A failed assert of backup or an exception that leaves ~Savepoint has ended
\* the program.
Ended ==
  /\ called # nullopt
  /\ ~called[1].ok
  /\ \/ called[1].op = "~Savepoint"
     \/ called[1].op = "backup" /\ called[1].val = "abort"

\* A caller has a parser and the program has not been ended by abort or
\* std::terminate.
Callable ==
  /\ m_state_stack # <<>>
  /\ Calls < MaxCalls
  /\ ~Ended

\* History: the calls so far, op(args) included, are creations and endings
\* of savepoints and calls that leave the stack alone, and each savepoint has
\* ended, by commit(), by rollback() or by going out of scope, once and
\* before any savepoint created earlier than it.
Nested(op, args) ==
  /\ called # nullopt => called[1].nested
  /\ op \notin {"save_state", "restore_state"}
  /\ op \in {"commit", "rollback"}
       => /\ savepoints[args[1]].called = {}
          /\ \A j \in (args[1] + 1)..Len(savepoints) : savepoints[j].returned # {}

\* The call op(args) leaves the parser r.ps and returns or throws r.val.
Returns(op, args, r, note) ==
  /\ m_pos' = r.ps.lx.m_pos
  /\ m_line' = r.ps.lx.m_line
  /\ m_col' = r.ps.lx.m_col
  /\ m_state_stack' = r.ps.m_state_stack
  /\ called' = some([op |-> op, args |-> args, before |-> parser,
                     ok |-> r.ok, val |-> r.val, note |-> note,
                     n |-> Calls + 1, nested |-> Nested(op, args)])
  /\ UNCHANGED <<m_input, pulls, result, original>>

\* The saved states that are left when the stack is cut to size elements.
Kept(size) == SubSeq(saved, 1, IF size - 1 < Len(saved) THEN size - 1 ELSE Len(saved))

Advance ==
  /\ Callable
  /\ \E r \in {advance(m_input, parser)} : Returns("advance", <<>>, r, <<>>)
  /\ UNCHANGED <<savepoints, saved>>

MatchType ==
  /\ Callable
  /\ \E type \in ExpectedKinds :
       \E r \in {match_type(m_input, parser, type)} :
         Returns("match", <<type>>, r, <<>>)
  /\ UNCHANGED <<savepoints, saved>>

Match ==
  /\ Callable
  /\ \E e \in ExpectedLexemes :
       \E r \in {match(m_input, parser, e[1], e[2])} :
         Returns("match", e, r, <<>>)
  /\ UNCHANGED <<savepoints, saved>>

\* The note of a failed expect is what its message carries.
ExpectType ==
  /\ Callable
  /\ \E type \in ExpectedKinds :
       \E r \in {expect_type(m_input, parser, type)} :
         Returns("expect", <<type>>, r,
                 IF r.ok \/ r.val # "Unexpected token type" THEN <<>>
                 ELSE expect_type_diagnostic(m_input, parser, type))
  /\ UNCHANGED <<savepoints, saved>>

Expect ==
  /\ Callable
  /\ \E e \in ExpectedLexemes :
       \E r \in {expect(m_input, parser, e[1], e[2])} :
         Returns("expect", e, r,
                 IF r.ok \/ r.val # "Unexpected token" THEN <<>>
                 ELSE expect_diagnostic(m_input, parser, e[1], e[2]))
  /\ UNCHANGED <<savepoints, saved>>

Peek ==
  /\ Callable
  /\ \E offset \in 1..MaxPeek :
       \E r \in {peek(m_input, parser, offset)} :
         Returns("peek", <<offset>>, r, <<>>)
  /\ UNCHANGED <<savepoints, saved>>

Backup ==
  /\ Callable
  /\ \E ndebug \in BOOLEAN :
       \E r \in {backup(m_input, parser, ndebug)} :
         Returns("backup", <<ndebug>>, r, <<>>)
  /\ UNCHANGED <<savepoints, saved>>

\* The parser as save_state leaves it is remembered under the id returned.
SaveState ==
  /\ Callable
  /\ Len(m_state_stack) < MaxStack
  /\ \E r \in {save_state(parser)} :
       /\ Returns("save_state", <<>>, r, <<>>)
       /\ saved' = Append(saved, [by |-> "save_state", ps |-> r.ps])
  /\ UNCHANGED savepoints

\* restore_state with an id that a call of save_state returned to the caller
\* and no restore_state has taken back since; the note is the parser as that
\* save_state left it.
RestoreState ==
  /\ Callable
  /\ \E id \in {i \in DOMAIN saved : saved[i].by = "save_state"} :
       \E r \in {restore_state(parser, id)} :
         /\ Returns("restore_state", <<id>>, r, saved[id].ps)
         /\ saved' = Kept(Len(r.ps.m_state_stack))
  /\ UNCHANGED savepoints

CreateSavepoint ==
  /\ Callable
  /\ Len(m_state_stack) < MaxStack
  /\ \E r \in {create_savepoint(parser)} :
       /\ Returns("create_savepoint", <<>>, r, r)
       /\ saved' = Append(saved, [by |-> "Savepoint", ps |-> r.ps])
       /\ savepoints' = Append(savepoints,
                                [m_state_id |-> r.sp.m_state_id,
                                 m_active |-> r.sp.m_active,
                                 called |-> {}, returned |-> {}])

\* The note of a call of a member of a Savepoint is what the call leaves;
\* the savepoint remembers which of its members were called and which of
\* them returned.
Member(op, i, r) ==
  /\ Returns(op, <<i>>, r, [r EXCEPT !.sp = savepoints[i]])
  /\ saved' = Kept(Len(r.ps.m_state_stack))

Commit ==
  /\ Callable
  /\ \E i \in DOMAIN savepoints :
       \E r \in {commit(parser, [m_state_id |-> savepoints[i].m_state_id,
                                 m_active |-> savepoints[i].m_active])} :
         /\ Member("commit", i, r)
         /\ savepoints' = [savepoints EXCEPT ![i].m_active = r.sp.m_active,
                                             ![i].called = @ \cup {"commit"},
                                             ![i].returned =
                                               IF r.ok THEN @ \cup {"commit"} ELSE @]

Rollback ==
  /\ Callable
  /\ \E i \in DOMAIN savepoints :
       \E r \in {rollback(parser, [m_state_id |-> savepoints[i].m_state_id,
                                   m_active |-> savepoints[i].m_active])} :
         /\ Member("rollback", i, r)
         /\ savepoints' = [savepoints EXCEPT ![i].m_active = r.sp.m_active,
                                             ![i].called = @ \cup {"rollback"},
                                             ![i].returned =
                                               IF r.ok THEN @ \cup {"rollback"} ELSE @]

\* The innermost savepoint goes out of scope.
LeaveScope ==
  /\ Callable
  /\ savepoints # <<>>
  /\ LET i == Len(savepoints)
     IN  \E r \in {Savepoint_destructor(parser,
                     [m_state_id |-> savepoints[i].m_state_id,
                      m_active |-> savepoints[i].m_active])} :
           /\ Member("~Savepoint", i, r)
           /\ savepoints' = SubSeq(savepoints, 1, i - 1)

NextPrimitives ==
  \/ Construct
  \/ Advance \/ MatchType \/ Match \/ ExpectType \/ Expect \/ Peek \/ Backup
  \/ SaveState \/ RestoreState
  \/ CreateSavepoint \/ Commit \/ Rollback \/ LeaveScope

SpecPrimitives == InitPrimitives /\ [][NextPrimitives]_vars

(***************************************************************************)
(* Properties of the state primitives                                      *)
(***************************************************************************)
Was(op) == called # nullopt /\ called[1].op = op

\* C11: restore_state(id), with the id a save_state returned, returns the
\* parser to the state that save_state left, whatever primitives were called
\* in between: the current lexeme, the previous lexeme and the lexer's byte
\* position, line and column are those of the save, and the next advance()
\* yields the lexeme it would have yielded directly after the save.
C11_RestoreReturnsToSave ==
  (Was("restore_state") /\ called[1].ok) =>
    LET at_save == called[1].note
    IN  /\ current(parser) = current(at_save)
        /\ back(parser).m_prev_lexeme = back(at_save).m_prev_lexeme
        /\ lexer = at_save.lx
        /\ LET now == advance(m_input, parser)
               then == advance(m_input, at_save)
           IN  now.ok = then.ok /\ current(now.ps) = current(then.ps)

\* C12: a Savepoint that goes out of scope without commit() or rollback()
\* having been called on it calls restore_state with its own id exactly once;
\* one on which commit() or rollback() was called calls no restore_state when
\* it goes out of scope.
C12_ScopeExitRestoresUnlessCalled ==
  Was("~Savepoint") =>
    LET sp == called[1].note.sp
    IN  called[1].note.restores =
          IF sp.called = {} THEN <<sp.m_state_id>> ELSE <<>>

\* C12, amended: a Savepoint that goes out of scope without commit() or
\* rollback() having returned on it calls restore_state with its own id exactly
\* once; one on which commit() or rollback() returned calls no restore_state
\* when it goes out of scope.
C12_ScopeExitRestoresUnlessReturned ==
  Was("~Savepoint") =>
    LET sp == called[1].note.sp
    IN  called[1].note.restores =
          IF sp.returned = {} THEN <<sp.m_state_id>> ELSE <<>>

\* A savepoint on which no member was called has gone out of scope and has
\* cut the stack back to the size it had before the savepoint.
C12_Witness ==
  /\ Was("~Savepoint")
  /\ called[1].ok
  /\ called[1].note.sp.called = {}
  /\ called[1].note.restores = <<called[1].note.sp.m_state_id>>
  /\ Len(m_state_stack) = Len(called[1].before.m_state_stack) - 1

\* C13: whenever parse() has returned an AST or failed with an error, and
\* whenever a Parser exists to be destroyed, m_state_stack holds exactly one
\* element, the baseline the constructor pushed.
C13_StackHoldsBaseline ==
  m_state_stack # <<>> =>
    /\ Len(m_state_stack) = 1
    /\ m_state_stack[1].m_pos = 0
    /\ m_state_stack[1].m_line = 1
    /\ m_state_stack[1].m_col = 1

\* parse() has advanced past the first lexeme and has failed with an error.
C13_Witness ==
  /\ m_state_stack # <<>>
  /\ result # nullopt
  /\ ~result[1].ok
  /\ m_state_stack[1].m_prev_lexeme.m_type # "UNDEFINED"
  /\ Len(m_state_stack) = 1

\* C14: expect(kind) and expect(kind, text) advance exactly once when the
\* current lexeme matches; otherwise they fail without advancing and the
\* diagnostic carries the expected kind (and text when given), the actual
\* lexeme's kind and text, and the actual lexeme's line and column.
C14_ExpectAdvancesOrDiagnoses ==
  Was("expect") =>
    LET before == called[1].before
        args == called[1].args
        actual == current(before)
        d == called[1].note
        carries(field, value) == field \in DOMAIN d /\ d[field] = value
    IN  IF actual.m_type = args[1] /\ (Len(args) = 2 => actual.m_value = args[2])
          THEN Same(parser, advance(m_input, before).ps)
          ELSE /\ ~called[1].ok
               /\ parser = before
               /\ carries("expected", args[1])
               /\ Len(args) = 2 => carries("expected_value", args[2])
               /\ carries("got", actual.m_type)
               /\ carries("current", actual.m_value)
               /\ carries("line", actual.m_line)
               /\ carries("column", actual.m_col)

\* C15: peek(n), n >= 1, returns the lexeme that n calls of advance() would
\* make current and consumes nothing: the current lexeme, the previous lexeme
\* and the lexer's byte position, line and column are as before the call.
C15_PeekConsumesNothing ==
  (Was("peek") /\ called[1].ok) =>
    LET before == called[1].before
    IN  /\ called[1].val = current(advance_times(m_input, before, called[1].args[1]).ps)
        /\ current(parser) = current(before)
        /\ back(parser).m_prev_lexeme = back(before).m_prev_lexeme
        /\ m_pos = before.lx.m_pos
        /\ m_line = before.lx.m_line
        /\ m_col = before.lx.m_col

\* C16: when the previous lexeme is defined, backup() makes it current and a
\* following advance() makes current the lexeme that was current before the
\* backup(); when the previous lexeme is UNDEFINED, backup() fails and leaves
\* the parser as it was.
C16_BackupRewindsOneToken ==
  Was("backup") =>
    LET before == called[1].before
    IN  IF back(before).m_prev_lexeme.m_type = "UNDEFINED"
          THEN ~called[1].ok /\ parser = before
          ELSE /\ called[1].ok
               /\ current(parser) = back(before).m_prev_lexeme
               /\ LET next == advance(m_input, parser)
                  IN  next.ok /\ current(next.ps) = current(before)

(***************************************************************************)
(* SELECT statements and their ASTs: a lexer and a parser on a statement   *)
(* of one of four families, parsed once.                                   *)
(***************************************************************************)
\* Most items of a column list of names.
MaxItems == 2
\* Most JOIN clauses after the first table reference.
MaxJoins == 2

\* All sequences over a set of a length from 1 up to n.
Lists(set, n) == UNION {[1..k -> set] : k \in 1..n}

\* A list of texts as one text, the items separated.
RECURSIVE Joined(_, _)
Joined(texts, separator) ==
  IF Len(texts) = 1 THEN texts[1]
  ELSE texts[1] \o separator \o Joined(Tail(texts), separator)

\* Column lists of bare names, qualified names, * and t.*
Items ==
  {[table |-> t, column |-> str(c)] : t \in {nullopt, some(str("t"))}, c \in {"a", "*"}}
ItemText(item) ==
  (IF item.table = nullopt THEN <<>> ELSE item.table[1] \o str(".")) \o item.column
NameList(items) ==
  str("SELECT ") \o Joined([i \in DOMAIN items |-> ItemText(items[i])], str(","))
    \o str(" FROM t")
NameLists == {NameList(items) : items \in Lists(Items, MaxItems)}
ItemsOf(in) == CHOOSE items \in Lists(Items, MaxItems) : NameList(items) = in

\* FROM clauses of a table reference and JOIN clauses with ON
JoinWords ==
  {[words |-> str(""), type |-> "inner"], [words |-> str("INNER "), type |-> "inner"],
   [words |-> str("LEFT "), type |-> "left"], [words |-> str("RIGHT "), type |-> "right"],
   [words |-> str("FULL "), type |-> "full"]}
JoinList(joins) ==
  str("SELECT * FROM t ")
    \o Joined([i \in DOMAIN joins |-> joins[i].words \o str("JOIN u ON a = b")], str(" "))
JoinLists == {JoinList(joins) : joins \in Lists(JoinWords, MaxJoins)}
JoinsOf(in) == CHOOSE joins \in Lists(JoinWords, MaxJoins) : JoinList(joins) = in

\* Expressions with an operand of each shape, as a column and in WHERE
Operands == {"b", "1", "'b'", "(b)", "(b+1)", "f(b)", "b+(c)"}
Expressions ==
  {str("SELECT a+") \o str(o) \o str(" FROM t") : o \in Operands}
    \cup {str("SELECT * FROM t WHERE a=") \o str(o) : o \in Operands}
    \cup {str("UPDATE t SET a=1 WHERE a=") \o str(o) : o \in Operands}

\* Statements with and without a column list and a FROM list
Lengths ==
  {str(t) : t \in {"SELECT FROM t", "SELECT a", "SELECT a FROM", "SELECT a,b FROM t,u",
                   "SELECT DISTINCT a+1 FROM s.t u", "SELECT , FROM t", "SELECT a FROM t,"}}

SelectStatements == NameLists \cup JoinLists \cup Expressions \cup Lengths

InitSelect ==
  /\ m_input \in SelectStatements
  /\ m_pos = 0
  /\ m_line = 1
  /\ m_col = 1
  /\ pulls = <<>>
  /\ m_state_stack = <<>>
  /\ result = nullopt
  /\ original = nullopt
  /\ savepoints = <<>>
  /\ called = nullopt
  /\ saved = <<>>

NextSelect == Construct \/ Parse

SpecSelect == InitSelect /\ [][NextSelect]_vars

(***************************************************************************)
(* Properties of the ASTs                                                  *)
(***************************************************************************)
Returned == result # nullopt /\ result[1].ok

\* The nodes of an AST: the node and the nodes below it.  A null pointer is
\* the node Null.
RECURSIVE Nodes(_)
NodesOf(list) == UNION {Nodes(list[i]) : i \in DOMAIN list}
Nodes(n) ==
  {n} \cup
    CASE n.node = "Binary_op" -> Nodes(n.m_left) \cup Nodes(n.m_right)
      [] n.node = "Function_call" -> NodesOf(n.m_arguments)
      [] n.node = "Where_clause" -> Nodes(n.m_condition)
      [] n.node = "Group_by" -> NodesOf(n.m_columns) \cup Nodes(n.m_having)
      [] n.node = "Order_by_item" -> Nodes(n.m_column)
      [] n.node = "Join_ref" -> Nodes(n.m_join)
      [] n.node = "Join" ->
           Nodes(n.m_left) \cup Nodes(n.m_right) \cup Nodes(n.m_condition)
      [] n.node = "Select_stmt" ->
           NodesOf(n.m_columns) \cup NodesOf(n.m_from) \cup Nodes(n.m_where)
             \cup Nodes(n.m_group_by) \cup NodesOf(n.m_order_by)
      [] n.node = "Update_stmt" ->
           Nodes(n.m_table) \cup Nodes(n.m_where) \cup NodesOf(n.m_order_by)
             \cup NodesOf([i \in DOMAIN n.m_assignments |-> n.m_assignments[i].m_value])
      [] n.node = "Delete_stmt" ->
           Nodes(n.m_table) \cup Nodes(n.m_where) \cup NodesOf(n.m_order_by)
      [] OTHER -> {}

\* C17: every Select node of an AST that parse() returns, the root or a node
\* below it, has a column list of length >= 1 and a FROM list of length >= 1.
C17_SelectHasColumnsAndFrom ==
  Returned =>
    \A n \in Nodes(result[1].val) :
      n.node = "Select_stmt" => Len(n.m_columns) >= 1 /\ Len(n.m_from) >= 1

\* parse() has returned a Select with two columns and two table references.
C17_Witness ==
  /\ Returned
  /\ result[1].val.node = "Select_stmt"
  /\ Len(result[1].val.m_columns) = 2
  /\ Len(result[1].val.m_from) = 2

\* C18: for a SELECT whose column list is a comma-separated list of bare
\* names c, qualified names t.c, * or t.*, the Select returned has, in the
\* order written, one present ColumnRef per item, with the item's column name
\* (* for the star forms) and with the table qualifier set exactly when one was
\* written.
C18_NameListGivesColumnRefs ==
  (m_input \in NameLists /\ Returned) =>
    LET items == ItemsOf(m_input)
    IN  /\ result[1].val.node = "Select_stmt"
        /\ result[1].val.m_columns =
             [i \in DOMAIN items |->
                Column_ref(items[i].table, items[i].column, nullopt)]

\* C19: in every AST that parse() returns, every BinaryOp node has its left
\* and its right child present, whatever the shape of the operand.
C19_BinaryOpHasBothChildren ==
  Returned =>
    \A n \in Nodes(result[1].val) :
      n.node = "Binary_op" => n.m_left # Null /\ n.m_right # Null

\* The FROM list the claim describes for a list of joins: one JoinRef, each
\* join the left child of the next.
RECURSIVE JoinNest(_, _)
JoinNest(left, joins) ==
  IF joins = <<>> THEN left
  ELSE JoinNest(Join_ref(Join(Head(joins).type, left,
                              Table_ref(nullopt, str("u"), nullopt), FALSE,
                              Binary_op("EQ", Column_ref(nullopt, str("a"), nullopt),
                                        Column_ref(nullopt, str("b"), nullopt)))),
                Tail(joins))

\* C20: a SELECT whose FROM clause is a table reference followed by one or
\* more [INNER|LEFT|RIGHT|FULL] JOIN <table> ON <expr> clauses parses to a
\* Select whose FROM list is one JoinRef: the Join has the written type (inner
\* for INNER JOIN and bare JOIN), natural = false, both table references and
\* the ON expression as condition, and successive joins nest to the left.
C20_JoinsParseToJoinRef ==
  (m_input \in JoinLists /\ result # nullopt) =>
    /\ result[1].ok
    /\ result[1].val.node = "Select_stmt"
    /\ result[1].val.m_from =
         <<JoinNest(Table_ref(nullopt, str("t"), nullopt), JoinsOf(m_input))>>


(***************************************************************************)
(* Statements: INSERT, the clauses of SELECT, failures                     *)
(***************************************************************************)
MaxClauses == 2
MaxRows == 2

RECURSIVE Concat(_)
Concat(texts) == IF texts = <<>> THEN <<>> ELSE texts[1] \o Concat(Tail(texts))

\* SELECT * FROM t followed by clauses, any kind any number of times.
ClauseKinds == {"WHERE", "GROUP BY", "HAVING", "ORDER BY", "LIMIT"}
ClauseText(kind) ==
  CASE kind = "WHERE" -> str(" WHERE a=1")
    [] kind = "GROUP BY" -> str(" GROUP BY a")
    [] kind = "HAVING" -> str(" HAVING a=1")
    [] kind = "ORDER BY" -> str(" ORDER BY a")
    [] kind = "LIMIT" -> str(" LIMIT 1")
ClauseLists == Lists(ClauseKinds, MaxClauses)
ClausesText(kinds) ==
  str("SELECT * FROM t") \o Concat([i \in 1..Len(kinds) |-> ClauseText(kinds[i])])

\* INSERT INTO t [(columns)] VALUES (values)[, (values)]...
InsertValues == {<<"1">>, <<"'x''y'">>, <<"1", "'x''y'">>}
InsertCases ==
  [columns : {<<>>, <<"a">>, <<"a", "b">>}, rows : Lists(InsertValues, MaxRows)]
InsertText(c) ==
  str("INSERT INTO t")
    \o (IF c.columns = <<>> THEN <<>>
        ELSE str(" (") \o Joined([i \in 1..Len(c.columns) |-> str(c.columns[i])], str(","))
               \o str(")"))
    \o str(" VALUES ")
    \o Joined([i \in 1..Len(c.rows) |->
                 str("(") \o Joined([j \in 1..Len(c.rows[i]) |-> str(c.rows[i][j])], str(","))
                   \o str(")")],
              str(","))
ValueAst(text) ==
  IF text = "1" THEN Literal("integer", str("1")) ELSE Literal("string", str("x'y"))
InsertAst(c) ==
  Insert_stmt(str("t"), [i \in 1..Len(c.columns) |-> str(c.columns[i])],
              [i \in 1..Len(c.rows) |-> [j \in 1..Len(c.rows[i]) |-> ValueAst(c.rows[i][j])]],
              nullopt)

\* Statements with a string literal that is not terminated, first lexeme,
\* column, looked ahead at from a column name, table, alias, condition.
Unterminated ==
  {str("'a"), str("SELECT 'a"), str("SELECT a 'b"), str("SELECT a, 'b FROM t"),
   str("SELECT * FROM 'a"), str("SELECT * FROM t 'a"), str("SELECT * FROM t u 'a"),
   str("SELECT * FROM t WHERE a='b"), str("SELECT * FROM t WHERE a 'b"),
   str("SELECT * FROM t ORDER BY a 'b"), str("DELETE FROM t 'a")}

\* SELECT and a column list that FROM does not follow.
NoFrom ==
  {str("SELECT *"), str("SELECT a"), str("SELECT a, b"), str("SELECT * t"),
   str("SELECT a WHERE a=1"), str("SELECT 1 ORDER BY a"), str("SELECT a+1 , b")}

\* SELECT * FROM t WHERE <expr>
WhereCases ==
  {[text |-> "a", ast |-> Column_ref(nullopt, str("a"), nullopt)],
   [text |-> "1", ast |-> Literal("integer", str("1"))],
   [text |-> "'b'", ast |-> Literal("string", str("b"))],
   [text |-> "a=1", ast |-> Binary_op("EQ", Column_ref(nullopt, str("a"), nullopt),
                                      Literal("integer", str("1")))],
   [text |-> "a<'b'", ast |-> Binary_op("LT", Column_ref(nullopt, str("a"), nullopt),
                                        Literal("string", str("b")))]}
WhereText(c) == str("SELECT * FROM t WHERE ") \o str(c.text)

\* Statements that end with a condition joined by AND or OR, a further
\* statement, or a stray lexeme.
Tailed ==
  {str("SELECT * FROM t WHERE a=1 AND b=2"), str("SELECT * FROM t WHERE a=1 OR b=2"),
   str("SELECT * FROM t WHERE a AND b"), str("SELECT * FROM t )"),
   str("SELECT * FROM t SELECT * FROM u"), str("DELETE FROM t WHERE a=1 AND b=2")}

\* Statements with a table alias, a quote in a string literal, an ORDER BY.
Printable ==
  {str("SELECT a FROM t"), str("SELECT * FROM t u"), str("SELECT t.* FROM s.t, u"),
   str("SELECT * FROM t WHERE a='x''y'"), str("SELECT * FROM t WHERE a='x'"),
   str("SELECT * FROM t ORDER BY a DESC"), str("SELECT a, b FROM t ORDER BY t.a"),
   str("SELECT * FROM t WHERE a<>1 LIMIT 20"), str("SELECT DISTINCT * FROM t GROUP BY a, b")}

StatementTexts ==
  {ClausesText(kinds) : kinds \in ClauseLists} \cup {InsertText(c) : c \in InsertCases}
    \cup Unterminated \cup NoFrom \cup {WhereText(c) : c \in WhereCases} \cup Tailed
    \cup Printable

(***************************************************************************)
(* AST: to_string()                                                        *)
(***************************************************************************)
\* join() of ast.cc
join(items, sep) == IF items = <<>> THEN <<>> ELSE Joined(items, sep)

\* std::to_string(size_t)
RECURSIVE std_to_string(_)
std_to_string(n) ==
  LET digit == CHOOSE c \in Digits : digit_value[c] = n % 10
  IN  IF n < 10 THEN <<digit>> ELSE std_to_string(n \div 10) \o <<digit>>

\* to_string(Binary_op::Op_type)
op_to_string(op) ==
  CASE op = "EQ" -> str("=")
    [] op = "NEQ" -> str("<>")
    [] op = "LT" -> str("<")
    [] op = "GT" -> str(">")
    [] op = "LTE" -> str("<=")
    [] op = "GTE" -> str(">=")
    [] op = "ADD" -> str("+")
    [] op = "SUBTRACT" -> str("-")
    [] op = "MULTIPLY" -> str("*")
    [] op = "DIVIDE" -> str("/")
    [] op = "MOD" -> str("%")
    [] op = "AND" -> str("AND")
    [] op = "OR" -> str("OR")
    [] op = "LIKE" -> str("LIKE")
    [] op = "IN" -> str("IN")
    [] op = "COMMA" -> str(",")

\* to_string() of a node calls to_string() through a null pointer: a column
\* or a table that is null, a null operand, a null column of ORDER BY or
\* GROUP BY. The behaviour of the call is undefined.
RECURSIVE dereferences_null(_)
dereferences_null(node) ==
  LET any(nodes) == \E i \in DOMAIN nodes :
                        nodes[i] = Null \/ dereferences_null(nodes[i])
  IN  CASE node.node = "Binary_op" -> any(<<node.m_left, node.m_right>>)
        [] node.node = "Where_clause" ->
             node.m_condition # Null /\ dereferences_null(node.m_condition)
        [] node.node = "Order_by_item" -> any(<<node.m_column>>)
        [] node.node = "Group_by" ->
             \/ any(node.m_columns)
             \/ node.m_having # Null /\ dereferences_null(node.m_having)
        [] node.node = "Select_stmt" ->
             \/ any(node.m_columns)
             \/ any(node.m_from)
             \/ node.m_where # Null /\ dereferences_null(node.m_where)
             \/ node.m_group_by # Null /\ dereferences_null(node.m_group_by)
             \/ any(node.m_order_by)
        [] OTHER -> FALSE

\* Ast_base::to_string() of the nodes of a Select_stmt; a null pointer that
\* is dereferenced is given as if it printed absent.
RECURSIVE node_to_string(_)
node_to_string(node) ==
  LET each(nodes) == [i \in DOMAIN nodes |-> node_to_string(nodes[i])]
  IN  CASE node = Null -> str("")
        [] node.node = "Literal" ->
             IF node.m_type = "null" THEN str("NULL")
             ELSE IF node.m_type = "string" THEN str("'") \o node.m_value \o str("'")
             ELSE node.m_value
        [] node.node = "Column_ref" ->
             (IF node.m_table_name # nullopt THEN node.m_table_name[1] \o str(".")
              ELSE str(""))
               \o node.m_column_name
               \o (IF node.m_alias # nullopt THEN str(" AS ") \o node.m_alias[1]
                   ELSE str(""))
        [] node.node = "Table_ref" ->
             (IF node.m_schema_name # nullopt THEN node.m_schema_name[1] \o str(".")
              ELSE str(""))
               \o node.m_table_name
               \o (IF node.m_alias # nullopt THEN str(" AS ") \o node.m_alias[1]
                   ELSE str(""))
        [] node.node = "Binary_op" ->
             node_to_string(node.m_left) \o str(" ") \o op_to_string(node.m_op)
               \o str(" ") \o node_to_string(node.m_right)
        [] node.node = "Where_clause" ->
             IF node.m_condition = Null THEN str("")
             ELSE str("WHERE ") \o node_to_string(node.m_condition)
        [] node.node = "Order_by_item" ->
             node_to_string(node.m_column)
               \o (IF ~node.m_ascending THEN str(" DESC") ELSE str(""))
               \o (IF node.m_nulls # nullopt THEN str(" NULLS ") \o node.m_nulls[1]
                   ELSE str(""))
        [] node.node = "Group_by" ->
             str("GROUP BY ") \o join(each(node.m_columns), str(", "))
               \o (IF node.m_having # Null
                     THEN str("\nHAVING ") \o node_to_string(node.m_having)
                   ELSE str(""))
        [] node.node = "Select_stmt" ->
             str("SELECT ")
               \o (IF node.m_distinct THEN str("DISTINCT ") ELSE str(""))
               \o join(each(node.m_columns), str(", "))
               \o str("\nFROM ")
               \o join(each(node.m_from), str(", "))
               \o (IF node.m_where # Null THEN str("\n") \o node_to_string(node.m_where)
                   ELSE str(""))
               \o (IF node.m_group_by # Null
                     THEN str("\n") \o node_to_string(node.m_group_by)
                   ELSE str(""))
               \o (IF node.m_order_by # <<>>
                     THEN str("\nORDER BY ") \o str("\nORDER BY ")
                            \o join(each(node.m_order_by), str(", "))
                   ELSE str(""))
               \o (IF node.m_limit # nullopt
                     THEN str("\nLIMIT ") \o std_to_string(node.m_limit[1])
                   ELSE str(""))

\* The call of to_string() has ended the program, as a null pointer that is
\* dereferenced can.
Crashed ==
  /\ m_state_stack' = <<>>
  /\ result' = some([ok |-> FALSE, val |-> "null pointer dereferenced"])
  /\ original' = some([edit |-> "print", at |-> 0, text |-> <<>>,
                       m_input |-> m_input, result |-> result[1]])
  /\ UNCHANGED <<m_input, m_pos, m_line, m_col, pulls>>
  /\ UNCHANGED primitive_vars

\* The Select_stmt that parse() returned is printed with to_string() and the
\* text is the input of a new lexer and parser.
ToText ==
  /\ Returned
  /\ original = nullopt
  /\ result[1].val.node = "Select_stmt"
  /\ \/ Edited("print", 0, <<>>, node_to_string(result[1].val))
     \/ dereferences_null(result[1].val) /\ Crashed

InitStatements ==
  /\ m_input \in StatementTexts
  /\ m_pos = 0
  /\ m_line = 1
  /\ m_col = 1
  /\ pulls = <<>>
  /\ m_state_stack = <<>>
  /\ result = nullopt
  /\ original = nullopt
  /\ savepoints = <<>>
  /\ called = nullopt
  /\ saved = <<>>

NextStatements == Construct \/ Parse \/ ToText

SpecStatements == InitStatements /\ [][NextStatements]_vars

(***************************************************************************)
(* Properties of statements                                                *)
(***************************************************************************)
Failed == result # nullopt /\ ~result[1].ok

\* C21: INSERT INTO <name> [(<names>)] VALUES (<values>)[, (<values>)]... is
\* accepted and gives an Insert_stmt with the table name, the column names
\* and one row of value ASTs per parenthesised list; 'x''y' is the string
\* literal x'y.
C21_InsertParsesToInsertStmt ==
  \A c \in InsertCases :
      (m_input = InsertText(c) /\ result # nullopt)
        => (result[1].ok /\ result[1].val = InsertAst(c))

\* The first clause of the list that the clause loop must refuse: a clause
\* of a kind met before, or HAVING with no GROUP BY before it; 0 if none.
Refused(kinds, j) ==
  \/ \E i \in 1..(j - 1) : kinds[i] = kinds[j]
  \/ kinds[j] = "HAVING" /\ ~\E i \in 1..(j - 1) : kinds[i] = "GROUP BY"
FirstRefused(kinds) ==
  IF \E j \in 1..Len(kinds) : Refused(kinds, j)
    THEN CHOOSE j \in 1..Len(kinds) :
           Refused(kinds, j) /\ \A i \in 1..(j - 1) : ~Refused(kinds, i)
    ELSE 0
Repeated(kinds) ==
  \E i, j \in 1..Len(kinds) : i < j /\ kinds[i] = kinds[j] /\ kinds[i] # "HAVING"

Duplicate(kind) ==
  CASE kind = "WHERE" -> "Duplicate WHERE clause"
    [] kind = "GROUP BY" -> "Duplicate GROUP BY clause"
    [] kind = "ORDER BY" -> "Duplicate ORDER BY clause"
    [] kind = "LIMIT" -> "Duplicate LIMIT clause"

\* C22: a SELECT with a second WHERE, GROUP BY, ORDER BY or LIMIT clause is
\* refused: parse() fails, with "Duplicate <kind> clause" when that clause is
\* the first one to refuse, and no Select_stmt is returned.
C22_DuplicateClauseFails ==
  \A kinds \in ClauseLists :
      (m_input = ClausesText(kinds) /\ Repeated(kinds) /\ result # nullopt)
        => /\ ~result[1].ok
           /\ kinds[FirstRefused(kinds)] # "HAVING"
                => result[1].val = Duplicate(kinds[FirstRefused(kinds)])

C22_Witness ==
  /\ m_input = ClausesText(<<"GROUP BY", "GROUP BY">>)
  /\ Failed
  /\ result[1].val = "Duplicate GROUP BY clause"

HavingBeforeGroupBy(kinds) ==
  \E j \in 1..Len(kinds) :
      kinds[j] = "HAVING" /\ ~\E i \in 1..(j - 1) : kinds[i] = "GROUP BY"

\* C23: a SELECT with HAVING before any GROUP BY is refused: parse() fails,
\* with "HAVING clause without GROUP BY" when that clause is the first one to
\* refuse; a returned Select_stmt of a statement with HAVING has a Group_by
\* and the condition is inside it.
C23_HavingNeedsGroupBy ==
  \A kinds \in ClauseLists :
      (m_input = ClausesText(kinds) /\ result # nullopt)
        => /\ HavingBeforeGroupBy(kinds)
                => /\ ~result[1].ok
                   /\ kinds[FirstRefused(kinds)] = "HAVING"
                        => result[1].val = "HAVING clause without GROUP BY"
           /\ (result[1].ok /\ \E j \in 1..Len(kinds) : kinds[j] = "HAVING")
                => /\ result[1].val.m_group_by # Null
                   /\ result[1].val.m_group_by.m_having =
                        Binary_op("EQ", Column_ref(nullopt, str("a"), nullopt),
                                  Literal("integer", str("1")))

C23_Witness ==
  /\ m_input = ClausesText(<<"HAVING", "GROUP BY">>)
  /\ Failed
  /\ result[1].val = "HAVING clause without GROUP BY"

\* C26: the Select_stmt of SELECT ... WHERE <expr> has a Where_clause whose
\* condition is present and is the AST of <expr>, a binary operation or a
\* single primary.
C26_WhereHoldsCondition ==
  \A c \in WhereCases :
      (m_input = WhereText(c) /\ Returned)
        => /\ result[1].val.m_where # Null
           /\ result[1].val.m_where.m_condition # Null
           /\ result[1].val.m_where.m_condition = c.ast

\* C29: when parse() returns an AST the current lexeme is END_OF_FILE.
C29_ReturnsAtEndOfFile ==
  Returned => current(ParserOf(m_state_stack, lexer)).m_type = "END_OF_FILE"

\* C25: the first failure ends parse(): a pull in which the lexer fails on a
\* string literal that is not terminated, in advance() or in peek(), is the
\* last pull and the call fails with the lexer's error; a SELECT whose column
\* list FROM does not follow fails with "Expected FROM clause", the lexeme
\* found in its place being the last one pulled; no AST is returned.
C25_FirstFailureEndsParse ==
  /\ \A i \in 1..Len(pulls) :
         pulls[i].threw
           => /\ i = Len(pulls)
              /\ Failed
              /\ result[1].val = "Unterminated string literal"
  /\ (m_input \in Unterminated /\ result # nullopt)
       => (Failed /\ pulls[Len(pulls)].threw)
  /\ (m_input \in NoFrom /\ result # nullopt)
       => /\ Failed
          /\ result[1].val = "Expected FROM clause"
          /\ pulls[Len(pulls)].lexeme = current(ParserOf(m_state_stack, lexer))

\* The lexer has failed inside peek(1), called for the column name a.
C25_Witness ==
  /\ m_input = str("SELECT a 'b")
  /\ Failed
  /\ Len(pulls) = 3
  /\ pulls[3].threw
  /\ current(ParserOf(m_state_stack, lexer)) = moved_from(pulls[2].lexeme)


(***************************************************************************)
(* Expressions: parse_expression() on operands joined by operators         *)
(***************************************************************************)
MaxOperators == 2

\* The operators of Binary_op::Op_type, as written in SQL.
OperatorTexts ==
  {"=", "<>", "<", ">", "<=", ">=", "+", "-", "*", "/", "%", "AND", "OR", "LIKE", "IN"}
Op_type(text) ==
  CASE text = "=" -> "EQ"
    [] text = "<>" -> "NEQ"
    [] text = "<" -> "LT"
    [] text = ">" -> "GT"
    [] text = "<=" -> "LTE"
    [] text = ">=" -> "GTE"
    [] text = "+" -> "ADD"
    [] text = "-" -> "SUBTRACT"
    [] text = "*" -> "MULTIPLY"
    [] text = "/" -> "DIVIDE"
    [] text = "%" -> "MOD"
    [] text = "AND" -> "AND"
    [] text = "OR" -> "OR"
    [] text = "LIKE" -> "LIKE"
    [] text = "IN" -> "IN"
\* Recognised: an OPERATOR lexeme that parse_operator() has a branch for; AND,
\* OR, LIKE and IN are words, which the lexer gives as KEYWORD or IDENTIFIER.
Recognised ==
  {text \in OperatorTexts :
     str(text) \in DOMAIN operator_types /\ str(text)[1] \notin Letters}

\* Primaries: a column name, a number, a string literal.
Primaries == {"a", "1", "'c'"}
PrimaryAst(text) ==
  CASE text = "a" -> Column_ref(nullopt, str("a"), nullopt)
    [] text = "1" -> Literal("integer", str("1"))
    [] text = "'c'" -> Literal("string", str("c"))

\* p op q
Pairs == [p : Primaries, op : OperatorTexts, q : Primaries]
PairText(c) == str(c.p) \o str(" ") \o str(c.op) \o str(" ") \o str(c.q)

\* p0 op1 p1 ... opn pn, the operators recognised ones, the operands by
\* their place.
Chains == Lists(Recognised, MaxOperators) \ Lists(Recognised, 1)
Operand(k) == IF k % 3 = 0 THEN "a" ELSE IF k % 3 = 1 THEN "1" ELSE "'c'"
RECURSIVE ChainText(_, _)
ChainText(ops, n) ==
  IF n = 0 THEN str(Operand(0))
  ELSE ChainText(ops, n - 1) \o str(" ") \o str(ops[n]) \o str(" ") \o str(Operand(n))
RECURSIVE LeftFold(_, _)
LeftFold(ops, n) ==
  IF n = 0 THEN PrimaryAst(Operand(0))
  ELSE Binary_op(Op_type(ops[n]), LeftFold(ops, n - 1), PrimaryAst(Operand(n)))

ExpressionTexts ==
  {PairText(c) : c \in Pairs} \cup {ChainText(ops, Len(ops)) : ops \in Chains}

InitExpression ==
  /\ m_input \in ExpressionTexts
  /\ m_pos = 0
  /\ m_line = 1
  /\ m_col = 1
  /\ pulls = <<>>
  /\ m_state_stack = <<>>
  /\ result = nullopt
  /\ original = nullopt
  /\ savepoints = <<>>
  /\ called = nullopt
  /\ saved = <<>>

\* parse_expression() called with the first lexeme of the input as current.
ParseExpression ==
  /\ m_state_stack # <<>>
  /\ result = nullopt
  /\ \E r \in {call_parse_expression(m_input, ParserOf(m_state_stack, lexer))} :
         /\ m_pos' = r.ps.lx.m_pos
         /\ m_line' = r.ps.lx.m_line
         /\ m_col' = r.ps.lx.m_col
         /\ m_state_stack' = r.ps.m_state_stack
         /\ result' = some([ok |-> r.ok, val |-> r.val])
         /\ pulls' = pulls \o r.ps.pulled
  /\ UNCHANGED <<m_input, original>>
  /\ UNCHANGED primitive_vars

NextExpression == Construct \/ ParseExpression

SpecExpression == InitExpression /\ [][NextExpression]_vars

\* C27: for every binary operator op of Op_type between primaries p and q,
\* parse_expression() consumes op and q and returns Binary_op(op, p, q).
C27_EveryOperatorGivesBinaryOp ==
  \A c \in Pairs :
      (m_input = PairText(c) /\ result # nullopt)
        => /\ result[1].ok
           /\ result[1].val = Binary_op(Op_type(c.op), PrimaryAst(c.p), PrimaryAst(c.q))
           /\ current(ParserOf(m_state_stack, lexer)).m_type = "END_OF_FILE"

\* C28: p0 op1 p1 ... opn pn with recognised operators is folded to the left,
\* all operators at one level of precedence:
\* Binary_op(opn, ... Binary_op(op1, p0, p1) ..., pn).
C28_ChainFoldsLeft ==
  \A ops \in Chains :
      (m_input = ChainText(ops, Len(ops)) /\ result # nullopt)
        => /\ result[1].ok
           /\ result[1].val = LeftFold(ops, Len(ops))
           /\ current(ParserOf(m_state_stack, lexer)).m_type = "END_OF_FILE"

C28_Witness ==
  /\ m_input = str("a + 1 * 'c'")
  /\ Returned
  /\ result[1].val.m_op = "MULTIPLY"
  /\ result[1].val.m_left.m_op = "ADD"


(***************************************************************************)
(* Properties of nested savepoints                                         *)
(***************************************************************************)
\* The last call has ended a savepoint: commit() or rollback() on one that
\* no member was called on before, or the scope exit of such a one.
SavepointEnded ==
  /\ called # nullopt
  /\ called[1].op \in {"commit", "rollback", "~Savepoint"}
  /\ called[1].note.sp.called = {}

\* C30: when savepoints are created and ended with every savepoint ending
\* before any savepoint created earlier, the stack, once a savepoint has
\* ended by commit(), rollback() or scope exit, has the depth it had just
\* before that savepoint was created, and the stack is never empty.
C30_EndedSavepointLeavesDepth ==
  (called # nullopt /\ called[1].nested)
    => /\ m_state_stack # <<>>
       /\ SavepointEnded
            => /\ called[1].ok
               /\ Len(m_state_stack) = called[1].note.sp.m_state_id


(***************************************************************************)
(* Properties of to_string()                                               *)
(***************************************************************************)
\* C24: when parse() accepts an input with AST A, the text to_string(A) is
\* accepted by parse() and gives an AST equal to A.
C24_PrintParseRoundTrip ==
  (WasEdited("print") /\ result # nullopt)
    => /\ result[1].ok
       /\ result[1].val = original[1].result.val

============================================================================
